---------------------------- MODULE Spec2Model ----------------------------
(***************************************************************************)
(* Model of the table storage engine: slotted pages (pkg/page), the disk   *)
(* manager (pkg/disk), the catalog (pkg/catalog), the logical-ID index     *)
(* (pkg/bptree) and the storage layer (pkg/layer) that threads them.       *)
(*                                                                         *)
(* Byte strings are kept run-length encoded: a byte string is a sequence   *)
(* of runs [b |-> byte, n |-> count] with n > 0 and no two adjacent runs   *)
(* of the same byte.  The encoding is canonical, so two byte strings are   *)
(* equal exactly when their encodings are equal.                           *)
(*                                                                         *)
(* A page image (Page.Data, 4096 bytes) is kept as its decoded parts: the  *)
(* header fields, the slot directory [0, SlotCount) and `tail`, the bytes  *)
(* Data[FreeEnd .. PageSize).  Bytes between the slot directory and        *)
(* FreeEnd are never written by the code and stay zero.  An all-zero image *)
(* decodes to header fields 0, no slots and a tail of PageSize zero bytes. *)
(*                                                                         *)
(* Every public method of the storage layer is a function from the state   *)
(* before the call to the error it returns, its result and the state after *)
(* the call (the operators LayerOpen .. LayerFlush); an action applies one *)
(* of them to the current state.  Calls run one at a time.  One base path *)
(* is used.                                                                *)
(*                                                                         *)
(* Specifications: Spec, the storage layer with disk I/O that succeeds     *)
(* (except a read past the end of a heap file, which fails as in the       *)
(* code); SpecFault, the layer with a Flush and a Close whose file         *)
(* operations may fail; SpecPage, one page; SpecDisk, the disk manager;    *)
(* SpecCodec, the row codec.                                               *)
(***************************************************************************)
EXTENDS Integers, Sequences, FiniteSets, Bags, TLC

\* ------------------------------------------------------------------ bounds
MaxID == 2        \* Insert is offered while fewer than MaxID IDs were issued
MaxPages == 2     \* Insert is offered while it leaves at most MaxPages pages counted
MaxInserts == 3   \* InsertRecord on the single page is offered MaxInserts times
MaxColumns == 2   \* schemas of up to MaxColumns columns are serialized
WideColumns == 9  \* and one schema of WideColumns nullable columns

\* ------------------------------------------------------- program constants
PageSize == 4096
PageHeaderSize == 18
SlotEntrySize == 4

\* the table names callers use, and the schemas they pass to CreateTable
Tables == {"users", "orders"}
Schemas == {"usersSchema", "otherSchema"}

\* --------------------------------------------------------- byte strings
Run(b, n) == [b |-> b, n |-> n]

Fill(b, n) == IF n <= 0 THEN << >> ELSE << Run(b, n) >>

RECURSIVE BLen(_)
BLen(s) == IF s = << >> THEN 0 ELSE Head(s).n + BLen(Tail(s))

\* s followed by t
BCat(s, t) ==
    IF s = << >> THEN t
    ELSE IF t = << >> THEN s
    ELSE IF s[Len(s)].b = t[1].b
         THEN SubSeq(s, 1, Len(s) - 1)
                \o << Run(t[1].b, s[Len(s)].n + t[1].n) >>
                \o Tail(t)
         ELSE s \o t

\* the first k bytes of s
RECURSIVE BTake(_, _)
BTake(s, k) ==
    IF k <= 0 \/ s = << >> THEN << >>
    ELSE IF Head(s).n <= k
         THEN << Head(s) >> \o BTake(Tail(s), k - Head(s).n)
         ELSE << Run(Head(s).b, k) >>

\* s without its first k bytes
RECURSIVE BDrop(_, _)
BDrop(s, k) ==
    IF k <= 0 \/ s = << >> THEN s
    ELSE IF Head(s).n <= k
         THEN BDrop(Tail(s), k - Head(s).n)
         ELSE << Run(Head(s).b, Head(s).n - k) >> \o Tail(s)

\* s[off : off+size]
BSub(s, off, size) == BTake(BDrop(s, off), size)

\* copy(s[off : off+len(r)], r)
BCopy(s, off, r) ==
    BCat(BCat(BTake(s, off), r), BDrop(s, off + BLen(r)))

\* the records callers hand to Insert and Update
EmptyRec == << >>
RecA == Fill(97, 1)
RecB == Fill(98, 1)
RecBig == Fill(122, PageSize - PageHeaderSize - SlotEntrySize)
RecHuge == Fill(122, PageSize - PageHeaderSize - SlotEntrySize + 1)
Records == {EmptyRec, RecA, RecB, RecBig, RecHuge}

\* int16(x)
Int16(x) == ((x + 32768) % 65536) - 32768


\* ---------------------------------------------------------- partial maps
NoMap == << >>

Put(f, k, v) == [x \in (DOMAIN f) \cup {k} |-> IF x = k THEN v ELSE f[x]]

Remove(f, k) == [x \in (DOMAIN f) \ {k} |-> f[x]]

\* ------------------------------------------------------------------ page
Header(pageID, slotCount, freeStart, freeEnd, next, prev) ==
    [PageID |-> pageID, SlotCount |-> slotCount, FreeStart |-> freeStart,
     FreeEnd |-> freeEnd, NextPageID |-> next, PrevPageID |-> prev]

SlotEntry(offset, size) == [Offset |-> offset, Size |-> size]

\* the image of a region of a heap file that was never written
ZeroData == [hdr |-> Header(0, 0, 0, 0, 0, 0), slots |-> << >>,
             tail |-> Fill(0, PageSize)]

NewPage(pageID) ==
    [PageID |-> pageID, dirty |-> TRUE,
     hdr |-> Header(pageID, 0, PageHeaderSize, Int16(PageSize), -1, -1),
     slots |-> << >>, tail |-> << >>]

\* data is a whole page image (len(data) == PageSize)
LoadPage(pageID, data) ==
    [PageID |-> pageID, dirty |-> FALSE,
     hdr |-> data.hdr, slots |-> data.slots, tail |-> data.tail]

GetData(p) == [hdr |-> p.hdr, slots |-> p.slots, tail |-> p.tail]

IsDirty(p) == p.dirty

SetClean(p) == [p EXCEPT !.dirty = FALSE]

readSlot(p, slotID) == p.slots[slotID + 1]

writeSlot(p, slotID, slot) ==
    [p EXCEPT !.slots = IF slotID < Len(p.slots)
                        THEN [p.slots EXCEPT ![slotID + 1] = slot]
                        ELSE Append(p.slots, slot),
              !.dirty = TRUE]

writeHeader(p, header) == [p EXCEPT !.hdr = header, !.dirty = TRUE]

\* p.Data[off : off+size]; bytes of the free region below FreeEnd are zero
DataAt(p, off, size) ==
    IF off >= p.hdr.FreeEnd
    THEN BSub(p.tail, off - p.hdr.FreeEnd, size)
    ELSE BSub(BCat(Fill(0, p.hdr.FreeEnd - off), p.tail), 0, size)

\* the lowest empty slot of [0, SlotCount), or -1
\* (variant) the search takes the highest empty slot
LastEmptySlot(p) ==
    LET empty == {i \in 0 .. (p.hdr.SlotCount - 1) : readSlot(p, i).Size = 0}
    IN  IF empty = {} THEN -1
        ELSE CHOOSE i \in empty : \A j \in empty : i >= j

FirstEmptySlot(p) ==
    LET empty == {i \in 0 .. (p.hdr.SlotCount - 1) : readSlot(p, i).Size = 0}
    IN  IF empty = {} THEN -1
        ELSE CHOOSE i \in empty : \A j \in empty : i <= j

\* (variant) InsertRecord stores FreeEnd, the end of the record, as the
\* slot's offset
InsertRecordOffsetAtEnd(p, record) ==
    LET header == p.hdr
        recordSize == BLen(record)
        freeSpace == header.FreeEnd - header.FreeStart - SlotEntrySize
        found == FirstEmptySlot(p)
        slotID == IF found = -1 THEN header.SlotCount ELSE found
        header1 == IF found = -1
                   THEN [header EXCEPT !.SlotCount = Int16(@ + 1),
                                       !.FreeStart = Int16(@ + SlotEntrySize)]
                   ELSE header
        recordOffset == header.FreeEnd - recordSize
        p1 == [p EXCEPT !.tail = BCat(record, @)]
        p2 == writeSlot(p1, slotID,
                        SlotEntry(Int16(header.FreeEnd), Int16(recordSize)))
        p3 == writeHeader(p2, [header1 EXCEPT !.FreeEnd = Int16(recordOffset)])
    IN  IF freeSpace < recordSize
        THEN [err |-> "PageFull", slotID |-> -1, page |-> p]
        ELSE [err |-> "none", slotID |-> slotID, page |-> p3]

\* (variant) a record that leaves no free byte is refused
InsertRecordNoExactFit(p, record) ==
    LET header == p.hdr
        recordSize == BLen(record)
        freeSpace == header.FreeEnd - header.FreeStart - SlotEntrySize
        found == FirstEmptySlot(p)
        slotID == IF found = -1 THEN header.SlotCount ELSE found
        header1 == IF found = -1
                   THEN [header EXCEPT !.SlotCount = Int16(@ + 1),
                                       !.FreeStart = Int16(@ + SlotEntrySize)]
                   ELSE header
        recordOffset == header.FreeEnd - recordSize
        p1 == [p EXCEPT !.tail = BCat(record, @)]
        p2 == writeSlot(p1, slotID,
                        SlotEntry(Int16(recordOffset), Int16(recordSize)))
        p3 == writeHeader(p2, [header1 EXCEPT !.FreeEnd = Int16(recordOffset)])
    IN  IF freeSpace <= recordSize
        THEN [err |-> "PageFull", slotID |-> -1, page |-> p]
        ELSE [err |-> "none", slotID |-> slotID, page |-> p3]

InsertRecord(p, record) ==
    LET header == p.hdr
        recordSize == BLen(record)
        freeSpace == header.FreeEnd - header.FreeStart - SlotEntrySize
        found == FirstEmptySlot(p)
        slotID == IF found = -1 THEN header.SlotCount ELSE found
        header1 == IF found = -1
                   THEN [header EXCEPT !.SlotCount = Int16(@ + 1),
                                       !.FreeStart = Int16(@ + SlotEntrySize)]
                   ELSE header
        recordOffset == header.FreeEnd - recordSize
        p1 == [p EXCEPT !.tail = BCat(record, @)]
        p2 == writeSlot(p1, slotID,
                        SlotEntry(Int16(recordOffset), Int16(recordSize)))
        p3 == writeHeader(p2, [header1 EXCEPT !.FreeEnd = Int16(recordOffset)])
    IN  IF freeSpace < recordSize
        THEN [err |-> "PageFull", slotID |-> -1, page |-> p]
        ELSE [err |-> "none", slotID |-> slotID, page |-> p3]

\* (variant) UpdateRecord marks the page dirty but does not copy the bytes
UpdateRecordNoCopy(p, slotID, newRecord) ==
    IF slotID >= p.hdr.SlotCount
    THEN [err |-> "NoSuchSlot", page |-> p]
    ELSE IF readSlot(p, slotID).Size = 0
    THEN [err |-> "EmptySlot", page |-> p]
    ELSE IF BLen(newRecord) # readSlot(p, slotID).Size
    THEN [err |-> "SizeMismatch", page |-> p]
    ELSE [err |-> "none", page |-> [p EXCEPT !.dirty = TRUE]]

GetRecord(p, slotID) ==
    LET slot == readSlot(p, slotID)
    IN  IF slotID >= p.hdr.SlotCount
        THEN [err |-> "NoSuchSlot", data |-> << >>]
        ELSE IF slot.Size = 0
        THEN [err |-> "EmptySlot", data |-> << >>]
        ELSE IF slot.Offset < 0 \/ slot.Size < 0
        THEN [err |-> "CorruptSlot", data |-> << >>]
        ELSE IF slot.Offset + slot.Size > PageSize
        THEN [err |-> "CorruptSlot", data |-> << >>]
        ELSE [err |-> "none", data |-> DataAt(p, slot.Offset, slot.Size)]

\* (variant) the new bytes are stored but the page is not marked dirty
UpdateRecordNoDirty(p, slotID, newRecord) ==
    IF slotID >= p.hdr.SlotCount
    THEN [err |-> "NoSuchSlot", page |-> p]
    ELSE IF readSlot(p, slotID).Size = 0
    THEN [err |-> "EmptySlot", page |-> p]
    ELSE IF BLen(newRecord) # readSlot(p, slotID).Size
    THEN [err |-> "SizeMismatch", page |-> p]
    ELSE [err |-> "none",
          page |-> [p EXCEPT
                      !.tail = BCopy(@, readSlot(p, slotID).Offset - p.hdr.FreeEnd,
                                     newRecord)]]

UpdateRecord(p, slotID, newRecord) ==
    LET slot == readSlot(p, slotID)
    IN  IF slotID >= p.hdr.SlotCount
        THEN [err |-> "NoSuchSlot", page |-> p]
        ELSE IF slot.Size = 0
        THEN [err |-> "EmptySlot", page |-> p]
        ELSE IF BLen(newRecord) # slot.Size
        THEN [err |-> "SizeMismatch", page |-> p]
        ELSE [err |-> "none",
              page |-> [p EXCEPT
                          !.tail = BCopy(@, slot.Offset - p.hdr.FreeEnd, newRecord),
                          !.dirty = TRUE]]

\* (variant) deleting the record that starts at FreeEnd gives its bytes back
PageDeleteRecordReclaim(p, slotID) ==
    LET slot == readSlot(p, slotID)
    IN  IF slotID >= p.hdr.SlotCount
        THEN [err |-> "NoSuchSlot", page |-> p]
        ELSE IF slot.Size = 0
        THEN [err |-> "AlreadyEmpty", page |-> p]
        ELSE IF slot.Offset = p.hdr.FreeEnd
        THEN [err |-> "none",
              page |-> writeHeader(
                         [writeSlot(p, slotID, SlotEntry(0, 0))
                            EXCEPT !.tail = BDrop(@, slot.Size)],
                         [p.hdr EXCEPT !.FreeEnd = @ + slot.Size])]
        ELSE [err |-> "none", page |-> writeSlot(p, slotID, SlotEntry(0, 0))]

PageDeleteRecord(p, slotID) ==
    LET slot == readSlot(p, slotID)
    IN  IF slotID >= p.hdr.SlotCount
        THEN [err |-> "NoSuchSlot", page |-> p]
        ELSE IF slot.Size = 0
        THEN [err |-> "AlreadyEmpty", page |-> p]
        ELSE [err |-> "none", page |-> writeSlot(p, slotID, SlotEntry(0, 0))]

\* ----------------------------------------------------------------- state
VARIABLES
    isOpen,        \* FileStorageLayer.isOpen
    catalog,       \* CatalogManager.schemas: table name -> schema
    indexes,       \* FileStorageLayer.indexes: table name -> SimpleIndex
    pageCache,     \* FileStorageLayer.pageCache: table name -> page ID -> Page
    files,         \* DiskManager.files: the tables with an open file handle
    pageCounter,   \* DiskManager.pageCounter: table name -> int32
    metaFile,      \* <basePath>/tables.meta: no entry, or the catalog blob
    idxFiles,      \* <basePath>/<table>.idx: table name -> index blob
    tblFiles,      \* <basePath>/<table>.tbl: table name -> page images
    crashed,       \* the process died of a nil-pointer panic
    live,          \* history: table -> logical ID -> bytes last stored for it
    maxIssued,     \* history: table -> largest ID an Insert has returned
    deleted,       \* history: table -> IDs a DeleteRecord has removed
    onePage,       \* a Page driven through its own methods (SpecPage)
    pageInserts,   \* history: the InsertRecord calls on onePage that succeeded
    codec,         \* a row on its way through Serialize and Deserialize (SpecCodec)
    written,       \* history: << table, pageID >> -> the data of the last WritePage
                   \* that succeeded, for calls made on the disk manager (SpecDisk)
    lastIO,        \* history: the last Flush or Close whose I/O could fail, its
                   \* error and the number of file operations it completed
                   \* (SpecFault)
    conc           \* goroutines calling one layer concurrently: each one's
                   \* position in its call, and the four sync.RWMutex
                   \* (SpecLock)

vars == << isOpen, catalog, indexes, pageCache, files, pageCounter,
           metaFile, idxFiles, tblFiles, crashed, live, maxIssued,
           deleted, onePage, pageInserts, codec, written,
           lastIO, conc >>

\* the in-memory state of the layer and its disk manager, and the heap files
memVars == << catalog, indexes, pageCache, files, pageCounter >>
diskVars == << metaFile, idxFiles, tblFiles >>
histVars == << live, maxIssued, deleted >>

\* the state of the storage layer with its files and history, and the state
\* of the components that are driven on their own
layerVars == << isOpen, memVars, diskVars, crashed, histVars >>
pageVars == << onePage, pageInserts >>
unitVars == << pageVars, codec, written, lastIO, conc >>

\* ------------------------------------------------------------------ JSON
\* encoding/json writes a map as its entries in key order and reads the
\* entries back into a fresh map
RECURSIVE KeyOrder(_)
KeyOrder(S) ==
    IF S = {} THEN << >>
    ELSE LET k == CHOOSE x \in S : \A y \in S : x <= y
         IN  << k >> \o KeyOrder(S \ {k})

RECURSIVE NameOrder(_, _)
NameOrder(S, all) ==
    IF all = << >> THEN << >>
    ELSE IF Head(all) \in S
         THEN << Head(all) >> \o NameOrder(S, Tail(all))
         ELSE NameOrder(S, Tail(all))

TableOrder == << "orders", "users" >>

MarshalCatalog(schemas) ==
    LET names == NameOrder(DOMAIN schemas, TableOrder)
    IN  [i \in 1 .. Len(names) |-> << names[i], schemas[names[i]] >>]

UnmarshalCatalog(blob) ==
    [t \in {blob[i][1] : i \in 1 .. Len(blob)} |->
        (CHOOSE e \in {blob[i] : i \in 1 .. Len(blob)} : e[1] = t)[2]]

MarshalIndex(si) ==
    LET ids == KeyOrder(DOMAIN si.index)
    IN  [index |-> [i \in 1 .. Len(ids) |->
                      [key |-> ids[i],
                       page_id |-> si.index[ids[i]].PageID,
                       slot_id |-> si.index[ids[i]].SlotID]],
         next_id |-> si.nextID]

UnmarshalIndex(blob) ==
    LET es == {blob.index[i] : i \in 1 .. Len(blob.index)}
    IN  [index |-> [id \in {e.key : e \in es} |->
                      LET e == CHOOSE x \in es : x.key = id
                      IN  [PageID |-> e.page_id, SlotID |-> e.slot_id]],
         nextID |-> blob.next_id]

\* ---------------------------------------------------------------- index
NewSimpleIndex == [index |-> NoMap, nextID |-> 1]

RecordID(pageID, slotID) == [PageID |-> pageID, SlotID |-> slotID]

\* (variant) Load takes the next ID from the largest key of the file instead
\* of the stored next_id
IndexLoadNextFromKeys(si, t, idx) ==
    IF t \notin DOMAIN idx THEN si
    ELSE [UnmarshalIndex(idx[t]) EXCEPT
            !.nextID = IF DOMAIN UnmarshalIndex(idx[t]).index = {} THEN 1
                       ELSE 1 + CHOOSE k \in DOMAIN UnmarshalIndex(idx[t]).index :
                                  \A j \in DOMAIN UnmarshalIndex(idx[t]).index : j <= k]

\* SimpleIndex.Load
IndexLoad(si, t, idx) ==
    IF t \notin DOMAIN idx THEN si ELSE UnmarshalIndex(idx[t])

\* (variant) Delete leaves the entry in the map
IndexDeleteKeep(si, id) == si

\* SimpleIndex.Insert: [id, si]
IndexInsert(si, rid) ==
    [id |-> si.nextID,
     si |-> [index |-> Put(si.index, si.nextID, rid), nextID |-> si.nextID + 1]]

IndexDelete(si, id) == [si EXCEPT !.index = Remove(@, id)]

\* --------------------------------------------------------- disk manager
\* The operators below work on w, a record of the whole state of the layer,
\* its components and the files under the base path (see W below); they
\* read and change its fields pageCache, files, pageCounter and tblFiles.
\* An operator whose first parameter is the result of a call (r, g, a, ...)
\* is the rest of the function after that call.

\* DiskManager.getFile: opens (and creates) the heap file on first use and
\* initialises the page counter from the file size
getFile(w, t) ==
    IF t \in w.files THEN w
    ELSE [w EXCEPT
            !.tblFiles = IF t \in DOMAIN @ THEN @ ELSE Put(@, t, << >>),
            !.files = @ \cup {t},
            !.pageCounter = IF t \in DOMAIN @ THEN @
                            ELSE IF t \in DOMAIN w.tblFiles
                            THEN Put(@, t, Len(w.tblFiles[t]))
                            ELSE Put(@, t, 0)]

\* file.ReadAt(data, pageID*PageSize) on the file getFile returned
ReadAt(w1, t, pageID) ==
    IF pageID + 1 > Len(w1.tblFiles[t])
    THEN [err |-> "ReadError", data |-> ZeroData, st |-> w1]
    ELSE [err |-> "none", data |-> w1.tblFiles[t][pageID + 1], st |-> w1]

\* DiskManager.ReadPage: [err, data, st]
ReadPage(w, t, pageID) == ReadAt(getFile(w, t), t, pageID)

\* (variant) a write that truncates the file after the page written
WriteAtTruncate(file, pageID, data) ==
    [i \in 1 .. (pageID + 1) |->
        IF i = pageID + 1 THEN data
        ELSE IF i <= Len(file) THEN file[i] ELSE ZeroData]

\* file.WriteAt(data, pageID*PageSize): a write past the end zero-fills the gap
WriteAt(file, pageID, data) ==
    [i \in 1 .. (IF pageID + 1 > Len(file) THEN pageID + 1 ELSE Len(file)) |->
        IF i = pageID + 1 THEN data
        ELSE IF i <= Len(file) THEN file[i] ELSE ZeroData]

\* DiskManager.WritePage with len(data) == PageSize
WritePage(w, t, pageID, data) ==
    [getFile(w, t) EXCEPT !.tblFiles[t] = WriteAt(@, pageID, data)]

\* DiskManager.WritePage for a buffer of any length, [n |-> len(data),
\* data |-> the image when n = PageSize]: [err, st]
DiskWritePage(w, t, pageID, buf) ==
    IF buf.n # PageSize THEN [err |-> "BadLength", st |-> w]
    ELSE [err |-> "none", st |-> WritePage(w, t, pageID, buf.data)]

\* the counter read and increment of AllocatePage
TakePageID(w1, t) ==
    [pageID |-> w1.pageCounter[t],
     st |-> [w1 EXCEPT !.pageCounter[t] = @ + 1]]

\* DiskManager.AllocatePage: [pageID, st]
AllocatePage(w, t) == TakePageID(getFile(w, t), t)

\* DiskManager.GetPageCount: a missing map entry reads 0
GetPageCount(w, t) ==
    IF t \in DOMAIN w.pageCounter THEN w.pageCounter[t] ELSE 0

\* DiskManager.Close
DiskClose(w) == [w EXCEPT !.files = {}]

\* -------------------------------------------------- storage layer helpers
CacheOf(w, t) == IF t \in DOMAIN w.pageCache THEN w.pageCache[t] ELSE NoMap

\* store a page object under pageCache[t][pageID]
SetPage(w, t, pageID, pg) ==
    [w EXCEPT !.pageCache =
        Put(@, t, Put(IF t \in DOMAIN @ THEN @[t] ELSE NoMap, pageID, pg))]

\* getPage after a cache miss and the ReadPage r
CachePage(r, t, pageID) ==
    IF r.err # "none"
    THEN [err |-> r.err, page |-> NewPage(pageID), st |-> r.st]
    ELSE [err |-> "none", page |-> LoadPage(pageID, r.data),
          st |-> SetPage(r.st, t, pageID, LoadPage(pageID, r.data))]

\* FileStorageLayer.getPage: [err, page, st]
getPage(w, t, pageID) ==
    IF pageID \in DOMAIN CacheOf(w, t)
    THEN [err |-> "none", page |-> w.pageCache[t][pageID], st |-> w]
    ELSE CachePage(ReadPage(w, t, pageID), t, pageID)

\* the first-fit loop of insertRecord over pages [pageID, pageCount)
RECURSIVE TryPages(_, _, _, _, _)

\* one round of the loop, after InsertRecord r on the page of getPage g
TryInsert(g, r, t, recordData, pageID, pageCount) ==
    IF r.err = "none"
    THEN [err |-> "none", pageID |-> pageID, slotID |-> r.slotID,
          st |-> SetPage(g.st, t, pageID, r.page)]
    ELSE TryPages(g.st, t, recordData, pageID + 1, pageCount)

\* one round of the loop, after getPage g
TryPage(g, t, recordData, pageID, pageCount) ==
    IF g.err # "none"
    THEN TryPages(g.st, t, recordData, pageID + 1, pageCount)
    ELSE TryInsert(g, InsertRecord(g.page, recordData), t, recordData,
                   pageID, pageCount)

TryPages(w, t, recordData, pageID, pageCount) ==
    IF pageID >= pageCount
    THEN [err |-> "PageFull", pageID |-> -1, slotID |-> -1, st |-> w]
    ELSE TryPage(getPage(w, t, pageID), t, recordData, pageID, pageCount)

\* insertRecord after AllocatePage a and InsertRecord r on the new page
PlaceNew(a, r, t) ==
    IF r.err # "none"
    THEN [err |-> r.err, pageID |-> -1, slotID |-> -1, st |-> a.st]
    ELSE [err |-> "none", pageID |-> a.pageID, slotID |-> r.slotID,
          st |-> SetPage(a.st, t, a.pageID, r.page)]

\* insertRecord after AllocatePage a
FillNew(a, t, recordData) ==
    PlaceNew(a, InsertRecord(NewPage(a.pageID), recordData), t)

\* insertRecord after the first-fit loop
AfterTry(tried, t, recordData) ==
    IF tried.err = "none" THEN tried
    ELSE FillNew(AllocatePage(tried.st, t), t, recordData)

\* FileStorageLayer.insertRecord: [err, pageID, slotID, st]
insertRecord(w, t, recordData) ==
    AfterTry(TryPages(w, t, recordData, 0, GetPageCount(w, t)), t, recordData)

\* (variant) Flush marks a dirty page clean without writing it to the heap
\* file
FlushPageNoWrite(w, t, pageID, pg) == SetPage(w, t, pageID, SetClean(pg))

\* Flush of one cached page: written and marked clean when dirty
FlushPage(w, t, pageID, pg) ==
    IF IsDirty(pg)
    THEN SetPage(WritePage(w, t, pageID, GetData(pg)), t, pageID, SetClean(pg))
    ELSE w

\* the page writes of Flush over the cache entries todo
RECURSIVE FlushPages(_, _)
FlushPages(w, todo) ==
    IF todo = {} THEN w
    ELSE FlushPages(
           FlushPage(w, (CHOOSE x \in todo : TRUE)[1],
                     (CHOOSE x \in todo : TRUE)[2],
                     w.pageCache[(CHOOSE x \in todo : TRUE)[1]]
                                [(CHOOSE x \in todo : TRUE)[2]]),
           todo \ {CHOOSE x \in todo : TRUE})

CachedPages(w) ==
    UNION {{<< t, p >> : p \in DOMAIN w.pageCache[t]} : t \in DOMAIN w.pageCache}

\* ------------------------------------------------------------ the state
\* the state of the layer, its components and the files, as one record
W == [isOpen |-> isOpen, catalog |-> catalog, indexes |-> indexes,
      pageCache |-> pageCache, files |-> files, pageCounter |-> pageCounter,
      metaFile |-> metaFile, idxFiles |-> idxFiles, tblFiles |-> tblFiles]

ApplyLayer(w) ==
    /\ isOpen' = w.isOpen
    /\ catalog' = w.catalog
    /\ indexes' = w.indexes
    /\ pageCache' = w.pageCache
    /\ files' = w.files
    /\ pageCounter' = w.pageCounter
    /\ metaFile' = w.metaFile
    /\ idxFiles' = w.idxFiles
    /\ tblFiles' = w.tblFiles

Apply(w) == ApplyLayer(w) /\ UNCHANGED unitVars

\* NewFileStorageLayer over the files w holds
NewLayer(w) ==
    [w EXCEPT !.isOpen = FALSE, !.catalog = NoMap, !.indexes = NoMap,
              !.pageCache = NoMap, !.files = {}, !.pageCounter = NoMap]

\* the caller-supplied filters of Scan
Filters == {"nil", "isA"}

Passes(f, data) == f = "nil" \/ data = RecA

\* --------------------------------------------------------- public methods
\* CatalogManager.Load
CatalogLoad(w) ==
    IF "tables.meta" \in DOMAIN w.metaFile
    THEN UnmarshalCatalog(w.metaFile["tables.meta"])
    ELSE NoMap

\* Open once the catalog is loaded: an index and an empty cache per table
OpenTables(w, schemas) ==
    [w EXCEPT
       !.catalog = schemas,
       !.indexes = [t \in (DOMAIN @) \cup (DOMAIN schemas) |->
                      IF t \in DOMAIN schemas
                      THEN IndexLoad(NewSimpleIndex, t, w.idxFiles)
                      ELSE @[t]],
       !.pageCache = [t \in (DOMAIN @) \cup (DOMAIN schemas) |->
                        IF t \in DOMAIN schemas THEN NoMap ELSE @[t]],
       !.files = {},
       !.pageCounter = NoMap,
       !.isOpen = TRUE]

LayerOpen(w) ==
    IF w.isOpen THEN [err |-> "AlreadyOpen", w |-> w]
    ELSE [err |-> "none", w |-> OpenTables(w, CatalogLoad(w))]

\* CatalogManager.Save
CatalogSave(w) ==
    [w EXCEPT !.metaFile = Put(@, "tables.meta", MarshalCatalog(w.catalog))]

\* SimpleIndex.Save for every index of the layer
IndexSaveAll(w) ==
    [w EXCEPT !.idxFiles = [t \in (DOMAIN @) \cup (DOMAIN w.indexes) |->
                              IF t \in DOMAIN w.indexes
                              THEN MarshalIndex(w.indexes[t])
                              ELSE @[t]]]

\* the page loop of Flush
FlushCache(w) == FlushPages(w, CachedPages(w))

LayerFlush(w) ==
    IF ~w.isOpen THEN [err |-> "NotOpen", w |-> w]
    ELSE [err |-> "none", w |-> FlushCache(IndexSaveAll(CatalogSave(w)))]

\* (variant) Close does not flush
CloseNoFlush(w) == w

\* the Flush that Close runs on an open layer
CloseFlush(w) == LayerFlush(w).w

LayerClose(w) ==
    IF ~w.isOpen THEN [err |-> "none", w |-> w]
    ELSE [err |-> "none",
          w |-> [DiskClose(CloseFlush(w)) EXCEPT !.isOpen = FALSE]]

\* ----------------------------------------- Flush and Close when I/O fails
\* Flush makes a sequence of file operations: the catalog save, one index
\* save per index and one WritePage per dirty cached page.  The two loops
\* range over Go maps, whose iteration order is not fixed: a plan gives the
\* two orders (indexOrder, pageOrder) and the position failAt of the file
\* operation that fails, 0 for none.  A file operation that fails leaves
\* its file as it was.
FlushOp(kind, t, pageID) == [kind |-> kind, t |-> t, pageID |-> pageID, ok |-> TRUE]

Perms(S) ==
    {f \in [1 .. Cardinality(S) -> S] :
        \A i, j \in 1 .. Cardinality(S) : f[i] = f[j] => i = j}

\* (variant) the page loop stops after the first dirty page
PageOpsFirstOnly(w, pageOrder) ==
    LET ops == SelectSeq([i \in 1 .. Len(pageOrder) |->
                             FlushOp("page", pageOrder[i][1], pageOrder[i][2])],
                         LAMBDA op : IsDirty(w.pageCache[op.t][op.pageID]))
    IN  IF ops = << >> THEN << >> ELSE << Head(ops) >>

\* the WritePage calls of the page loop taken in pageOrder: a page that is
\* not dirty is skipped
PageOps(w, pageOrder) ==
    SelectSeq([i \in 1 .. Len(pageOrder) |->
                  FlushOp("page", pageOrder[i][1], pageOrder[i][2])],
              LAMBDA op : IsDirty(w.pageCache[op.t][op.pageID]))

\* (variant) the dirty pages are written before the catalog and the indexes
FlushOpsPagesFirst(w, plan) ==
    PageOps(w, plan.pageOrder)
      \o << FlushOp("catalog", "", -1) >>
      \o [i \in 1 .. Len(plan.indexOrder) |-> FlushOp("index", plan.indexOrder[i], -1)]

\* the file operations of Flush, in the order of its three parts
FlushOps(w, plan) ==
    << FlushOp("catalog", "", -1) >>
      \o [i \in 1 .. Len(plan.indexOrder) |-> FlushOp("index", plan.indexOrder[i], -1)]
      \o PageOps(w, plan.pageOrder)

\* SimpleIndex.Save of the index of t
IndexSave(w, t) ==
    [w EXCEPT !.idxFiles = Put(@, t, MarshalIndex(w.indexes[t]))]

\* (variant) a dirty page is marked clean without being written
FlushStepCleanOnly(w, op) ==
    CASE op.kind = "catalog" -> CatalogSave(w)
      [] op.kind = "index" -> IndexSave(w, op.t)
      [] op.kind = "page" ->
           SetPage(w, op.t, op.pageID, SetClean(w.pageCache[op.t][op.pageID]))

\* one file operation of Flush that succeeds, with SetClean after WritePage
FlushStep(w, op) ==
    CASE op.kind = "catalog" -> CatalogSave(w)
      [] op.kind = "index" -> IndexSave(w, op.t)
      [] op.kind = "page" ->
           SetPage(WritePage(w, op.t, op.pageID,
                             GetData(w.pageCache[op.t][op.pageID])),
                   op.t, op.pageID, SetClean(w.pageCache[op.t][op.pageID]))

FlushError(op) ==
    CASE op.kind = "catalog" -> "CatalogSaveFailed"
      [] op.kind = "index" -> "IndexSaveFailed"
      [] op.kind = "page" -> "WritePageFailed"

\* Flush from its i-th file operation: it returns at the first failure
RECURSIVE RunFlush(_, _, _, _, _)
RunFlush(w, ops, failAt, i, log) ==
    IF i > Len(ops) THEN [err |-> "none", w |-> w, log |-> log]
    ELSE IF i = failAt
    THEN [err |-> FlushError(ops[i]), w |-> w,
          log |-> Append(log, [ops[i] EXCEPT !.ok = FALSE])]
    ELSE RunFlush(FlushStep(w, ops[i]), ops, failAt, i + 1, Append(log, ops[i]))

\* FileStorageLayer.Flush under a plan: [err, w, log]
LayerFlushIO(w, plan) ==
    IF ~w.isOpen THEN [err |-> "NotOpen", w |-> w, log |-> << >>]
    ELSE RunFlush(w, FlushOps(w, plan), plan.failAt, 1, << >>)

\* Close after its Flush f
CloseAfterFlush(f) ==
    IF f.err # "none" THEN [err |-> "FlushFailed", w |-> f.w, log |-> f.log]
    ELSE [err |-> "none", w |-> [DiskClose(f.w) EXCEPT !.isOpen = FALSE],
          log |-> f.log]

\* FileStorageLayer.Close under a plan: [err, w, log]
LayerCloseIO(w, plan) ==
    IF ~w.isOpen THEN [err |-> "none", w |-> w, log |-> << >>]
    ELSE CloseAfterFlush(LayerFlushIO(w, plan))

DirtyPages(w) == {x \in CachedPages(w) : IsDirty(w.pageCache[x[1]][x[2]])}

\* the plans of a Flush in state w; the place of a clean page in the page
\* loop makes no difference, so pageOrder orders the dirty pages
Plans(w) ==
    {[indexOrder |-> io, pageOrder |-> po, failAt |-> k] :
        io \in Perms(DOMAIN w.indexes), po \in Perms(DirtyPages(w)),
        k \in 0 .. (1 + Cardinality(DOMAIN w.indexes)
                       + Cardinality(DirtyPages(w)))}

\* CatalogManager.CreateTable on a new name: the schema is stored and saved
CatalogCreate(w, t, schema) ==
    CatalogSave([w EXCEPT !.catalog = Put(@, t, schema)])

\* FileStorageLayer.CreateTable after the catalog accepted the table
NewTable(w1, t) ==
    [w1 EXCEPT !.indexes = Put(@, t, NewSimpleIndex),
               !.pageCache = Put(@, t, NoMap)]

\* (variant) CreateTable does not reject a name the catalog holds
LayerCreateTableOverwrite(w, t, schema) ==
    IF ~w.isOpen THEN [err |-> "NotOpen", w |-> w]
    ELSE [err |-> "none", w |-> NewTable(CatalogCreate(w, t, schema), t)]

LayerCreateTable(w, t, schema) ==
    IF ~w.isOpen THEN [err |-> "NotOpen", w |-> w]
    ELSE IF t \in DOMAIN w.catalog THEN [err |-> "DuplicateTable", w |-> w]
    ELSE [err |-> "none", w |-> NewTable(CatalogCreate(w, t, schema), t)]

\* Insert after the index issued i for the record insertRecord r placed
Registered(r, i, t) ==
    [err |-> "none", id |-> i.id, w |-> [r.st EXCEPT !.indexes[t] = i.si]]

\* Insert after insertRecord r
Register(r, t) ==
    IF r.err # "none" THEN [err |-> r.err, id |-> -1, w |-> r.st]
    ELSE Registered(r, IndexInsert(r.st.indexes[t],
                                   RecordID(r.pageID, r.slotID)), t)

\* [err, id, w]
LayerInsert(w, t, recordData) ==
    IF ~w.isOpen THEN [err |-> "NotOpen", id |-> -1, w |-> w]
    ELSE IF t \notin DOMAIN w.catalog
    THEN [err |-> "NoSuchTable", id |-> -1, w |-> w]
    ELSE Register(insertRecord(w, t, recordData), t)

\* Get after GetRecord r on the page of getPage g
Got(g, r) == [err |-> r.err, data |-> r.data, w |-> g.st]

\* Get after getPage g
Fetch(g, slotID) ==
    IF g.err # "none" THEN [err |-> g.err, data |-> << >>, w |-> g.st]
    ELSE Got(g, GetRecord(g.page, slotID))

\* [err, data, w]; a table without an index makes the call dereference a nil
\* *SimpleIndex, which panics
LayerGet(w, t, id) ==
    IF ~w.isOpen THEN [err |-> "NotOpen", data |-> << >>, w |-> w]
    ELSE IF t \notin DOMAIN w.indexes
    THEN [err |-> "Panic", data |-> << >>, w |-> w]
    ELSE IF id \notin DOMAIN w.indexes[t].index
    THEN [err |-> "NotFound", data |-> << >>, w |-> w]
    ELSE Fetch(getPage(w, t, w.indexes[t].index[id].PageID),
               w.indexes[t].index[id].SlotID)

\* Update after UpdateRecord u on the page of getPage g
Updated(g, u, t, pageID) ==
    [err |-> u.err, w |-> SetPage(g.st, t, pageID, u.page)]

\* Update after getPage g
Overwrite(g, t, rid, updatedRecord) ==
    IF g.err # "none" THEN [err |-> g.err, w |-> g.st]
    ELSE Updated(g, UpdateRecord(g.page, rid.SlotID, updatedRecord), t,
                 rid.PageID)

LayerUpdate(w, t, id, updatedRecord) ==
    IF ~w.isOpen THEN [err |-> "NotOpen", w |-> w]
    ELSE IF t \notin DOMAIN w.indexes THEN [err |-> "Panic", w |-> w]
    ELSE IF id \notin DOMAIN w.indexes[t].index
    THEN [err |-> "NotFound", w |-> w]
    ELSE Overwrite(getPage(w, t, w.indexes[t].index[id].PageID), t,
                   w.indexes[t].index[id], updatedRecord)

\* DeleteRecord after Page.DeleteRecord d on the page of getPage g
Unindex(g, d, t, id, pageID) ==
    IF d.err # "none" THEN [err |-> d.err, w |-> g.st]
    ELSE [err |-> "none",
          w |-> [SetPage(g.st, t, pageID, d.page) EXCEPT
                   !.indexes[t] = IndexDelete(@, id)]]

\* DeleteRecord after getPage g
Tombstone(g, t, id, rid) ==
    IF g.err # "none" THEN [err |-> g.err, w |-> g.st]
    ELSE Unindex(g, PageDeleteRecord(g.page, rid.SlotID), t, id, rid.PageID)

LayerDeleteRecord(w, t, id) ==
    IF ~w.isOpen THEN [err |-> "NotOpen", w |-> w]
    ELSE IF t \notin DOMAIN w.indexes THEN [err |-> "Panic", w |-> w]
    ELSE IF id \notin DOMAIN w.indexes[t].index
    THEN [err |-> "NotFound", w |-> w]
    ELSE Tombstone(getPage(w, t, w.indexes[t].index[id].PageID), t, id,
                   w.indexes[t].index[id])

\* the loop of Scan over the index entries ids: [bag, w]
RECURSIVE ScanLoop(_, _, _, _, _)

\* one round of the loop, after GetRecord r: the record is kept or skipped
Collect(g, r, t, rest, f, acc) ==
    ScanLoop(g.st, t, rest, f,
             IF r.err = "none" /\ Passes(f, r.data)
             THEN acc (+) SetToBag({r.data})
             ELSE acc)

\* one round of the loop, after getPage g
Visit(g, t, slotID, rest, f, acc) ==
    IF g.err # "none" THEN ScanLoop(g.st, t, rest, f, acc)
    ELSE Collect(g, GetRecord(g.page, slotID), t, rest, f, acc)

\* one round of the loop, for index entry id
VisitID(w, t, id, ids, f, acc) ==
    Visit(getPage(w, t, w.indexes[t].index[id].PageID), t,
          w.indexes[t].index[id].SlotID, ids \ {id}, f, acc)

ScanLoop(w, t, ids, f, acc) ==
    IF ids = {} THEN [bag |-> acc, w |-> w]
    ELSE VisitID(w, t, CHOOSE x \in ids : TRUE, ids, f, acc)

\* Scan after the loop r
Scanned(r) == [err |-> "none", bag |-> r.bag, w |-> r.w]

\* [err, bag, w]
LayerScan(w, t, f) ==
    IF ~w.isOpen THEN [err |-> "NotOpen", bag |-> EmptyBag, w |-> w]
    ELSE IF t \notin DOMAIN w.catalog
    THEN [err |-> "NoSuchTable", bag |-> EmptyBag, w |-> w]
    ELSE Scanned(ScanLoop(w, t, DOMAIN w.indexes[t].index, f, EmptyBag))

\* --------------------------------------------------------------- actions
IDs == 1 .. MaxID

\* The calls a run makes.  One table, "users", is created, with the schema
\* of the demo driver; "orders" stays unknown to the catalog.  Insert is
\* offered the empty record, a one-byte record, the largest record an empty
\* page accepts and the smallest one it rejects; Update is offered a
\* one-byte record that Insert never stores.
CreatedTables == {"users"}
CreatedSchemas == {"usersSchema"}
InsertRecords == {EmptyRec, RecA, RecBig, RecHuge}
UpdateRecords == {RecB}

RECURSIVE Sum(_, _)
Sum(f, S) ==
    IF S = {} THEN 0
    ELSE LET x == CHOOSE y \in S : TRUE IN f[x] + Sum(f, S \ {x})

\* the IDs issued and the pages allocated, over all tables
Issued(w) == Sum([t \in DOMAIN w.indexes |-> w.indexes[t].nextID - 1],
                 DOMAIN w.indexes)
Allocated(w) == Sum(w.pageCounter, DOMAIN w.pageCounter)

\* a nil-pointer panic ends the process: its memory is gone, the files stay
Died(w) == NewLayer(w)

NewFileStorageLayer ==
    /\ ~crashed /\ ~isOpen
    /\ Apply(NewLayer(W))
    /\ UNCHANGED << crashed, histVars >>

Open ==
    /\ ~crashed
    /\ Apply(LayerOpen(W).w)
    /\ UNCHANGED << crashed, histVars >>

Close ==
    /\ ~crashed
    /\ Apply(LayerClose(W).w)
    /\ UNCHANGED << crashed, histVars >>

Flush ==
    /\ ~crashed
    /\ Apply(LayerFlush(W).w)
    /\ UNCHANGED << crashed, histVars >>

CreateTable(t, schema) ==
    /\ ~crashed
    /\ Apply(LayerCreateTable(W, t, schema).w)
    /\ UNCHANGED << crashed, histVars >>

\* the step of a call that returned o: a panic ends the process
Return(o) ==
    /\ crashed' = (o.err = "Panic")
    /\ Apply(IF o.err = "Panic" THEN Died(o.w) ELSE o.w)

Inserted(o, t, recordData) ==
    /\ Allocated(o.w) <= MaxPages
    /\ Apply(o.w)
    /\ IF o.err = "none"
       THEN /\ live' = [live EXCEPT ![t] = Put(@, o.id, recordData)]
            /\ maxIssued' = [maxIssued EXCEPT ![t] =
                               IF o.id > @ THEN o.id ELSE @]
       ELSE UNCHANGED << live, maxIssued >>

Insert(t, recordData) ==
    /\ ~crashed
    /\ Issued(W) < MaxID
    /\ Inserted(LayerInsert(W, t, recordData), t, recordData)
    /\ UNCHANGED << crashed, deleted >>

Get(t, id) ==
    /\ ~crashed
    /\ Return(LayerGet(W, t, id))
    /\ UNCHANGED histVars

UpdatedStep(o, t, id, updatedRecord) ==
    /\ Return(o)
    /\ live' = IF o.err = "none" /\ id \in DOMAIN live[t]
               THEN [live EXCEPT ![t][id] = updatedRecord]
               ELSE live

Update(t, id, updatedRecord) ==
    /\ ~crashed
    /\ UpdatedStep(LayerUpdate(W, t, id, updatedRecord), t, id, updatedRecord)
    /\ UNCHANGED << maxIssued, deleted >>

DeletedStep(o, t, id) ==
    /\ Return(o)
    /\ IF o.err = "none"
       THEN /\ live' = [live EXCEPT ![t] = Remove(@, id)]
            /\ deleted' = [deleted EXCEPT ![t] = @ \cup {id}]
       ELSE UNCHANGED << live, deleted >>

DeleteRecord(t, id) ==
    /\ ~crashed
    /\ DeletedStep(LayerDeleteRecord(W, t, id), t, id)
    /\ UNCHANGED maxIssued

Scan(t, f) ==
    /\ ~crashed
    /\ Apply(LayerScan(W, t, f).w)
    /\ UNCHANGED << crashed, histVars >>

\* the storage layer before NewFileStorageLayer and Open, on an empty base path
InitLayer ==
    /\ isOpen = FALSE
    /\ catalog = NoMap /\ indexes = NoMap /\ pageCache = NoMap
    /\ files = {} /\ pageCounter = NoMap
    /\ metaFile = NoMap /\ idxFiles = NoMap /\ tblFiles = NoMap
    /\ crashed = FALSE
    /\ live = [t \in Tables |-> NoMap]
    /\ maxIssued = [t \in Tables |-> 0]
    /\ deleted = [t \in Tables |-> {}]

InitPage ==
    /\ onePage = NewPage(0)
    /\ pageInserts = 0

\* no row is being serialized
InitCodecIdle == codec = [phase |-> "idle"]

InitDisk == written = NoMap

\* no Flush was made yet
InitFault == lastIO = [op |-> "none", err |-> "none", done |-> 0]

\* the goroutines that call the layer, and the components that own a mutex:
\* FileStorageLayer, CatalogManager, SimpleIndex and DiskManager
Threads == {"g1", "g2"}
Components == {"layer", "catalog", "index", "disk"}

\* a goroutine that is in no call
IdleThread == [call |-> "none", prog |-> << >>, pc |-> 1]

\* a sync.RWMutex nobody holds: w is the goroutine inside Lock (it holds
\* the writer mutex and has announced itself to the readers), active says
\* that its Lock has returned, readers counts each goroutine's RLocks
FreeMutex == [w |-> "none", active |-> FALSE, readers |-> [g \in Threads |-> 0]]

\* no goroutine has called the layer yet
InitLock ==
    conc = [th |-> [g \in Threads |-> IdleThread],
            mu |-> [c \in Components |-> FreeMutex],
            started |-> 0]

Init ==
    InitLayer /\ InitPage /\ InitCodecIdle /\ InitDisk /\ InitFault /\ InitLock

Next ==
    \/ NewFileStorageLayer
    \/ Open
    \/ Close
    \/ Flush
    \/ \E t \in CreatedTables, schema \in CreatedSchemas : CreateTable(t, schema)
    \/ \E t \in Tables, r \in InsertRecords : Insert(t, r)
    \/ \E t \in Tables, id \in IDs : Get(t, id)
    \/ \E t \in Tables, id \in IDs, r \in UpdateRecords : Update(t, id, r)
    \/ \E t \in Tables, id \in IDs : DeleteRecord(t, id)
    \/ \E t \in Tables, f \in Filters : Scan(t, f)

Spec == Init /\ [][Next]_vars

\* ------------------------------------------------------ a page on its own
\* One Page object driven through its methods, as the page test does: the
\* page starts as NewPage(0); InsertRecord is offered the records above, the
\* largest record the page still accepts and the record one byte longer;
\* UpdateRecord and DeleteRecord are offered every slot index up to
\* MaxInserts; the page is also written out and loaded back.
SlotIDs == 0 .. MaxInserts

\* the largest record InsertRecord accepts on p, and the one a byte longer
ExactFit(p) == Fill(120, p.hdr.FreeEnd - p.hdr.FreeStart - SlotEntrySize)
OneTooLong(p) == Fill(120, p.hdr.FreeEnd - p.hdr.FreeStart - SlotEntrySize + 1)
PageRecords(p) == Records \cup {ExactFit(p), OneTooLong(p)}

PageInserted(o) ==
    /\ onePage' = o.page
    /\ pageInserts' = IF o.err = "none" THEN pageInserts + 1 ELSE pageInserts

PageInsert(r) ==
    /\ pageInserts < MaxInserts
    /\ PageInserted(InsertRecord(onePage, r))
    /\ UNCHANGED << layerVars, codec, written, lastIO, conc >>

\* InsertRecord with one of the records offered for the page as it is
PageInsertAny == \E r \in PageRecords(onePage) : PageInsert(r)

PageUpdate(slotID, r) ==
    /\ onePage' = UpdateRecord(onePage, slotID, r).page
    /\ UNCHANGED << pageInserts, layerVars, codec, written, lastIO, conc >>

PageDelete(slotID) ==
    /\ onePage' = PageDeleteRecord(onePage, slotID).page
    /\ UNCHANGED << pageInserts, layerVars, codec, written, lastIO, conc >>

\* the page image is written out, marked clean, and loaded into a new Page
PageReload ==
    /\ onePage' = LoadPage(onePage.PageID, GetData(SetClean(onePage)))
    /\ UNCHANGED << pageInserts, layerVars, codec, written, lastIO, conc >>

NextPage ==
    \/ PageInsertAny
    \/ \E slotID \in SlotIDs, r \in UpdateRecords \cup {RecA} : PageUpdate(slotID, r)
    \/ \E slotID \in SlotIDs : PageDelete(slotID)
    \/ PageReload

SpecPage == Init /\ [][NextPage]_vars

\* ------------------------------------------------------------- row codec
\* A value of a row ([]interface{}) is tagged with its dynamic type.  A Go
\* int is kept as the pair << hi, lo >> with value hi * 65536 + lo and
\* 0 <= lo < 65536; a float64 is kept as its eight bytes, least significant
\* first; a string is kept as its bytes.
NilValue == [kind |-> "nil", v |-> << >>]
IntValue(hi, lo) == [kind |-> "int", v |-> << hi, lo >>]
FloatValue(bits) == [kind |-> "float", v |-> bits]
StringValue(s) == [kind |-> "string", v |-> s]

Column(name, type, length, nullable) ==
    [Name |-> name, Type |-> type, Length |-> length, Nullable |-> nullable]

\* data[i]
ByteAt(data, i) == BSub(data, i, 1)[1].b

\* binary.LittleEndian.PutUint16 and Uint16, for 0 <= x < 65536
PutUint16(x) == BCat(Fill(x % 256, 1), Fill(x \div 256, 1))
Uint16(data) == ByteAt(data, 0) + 256 * ByteAt(data, 1)

\* int(u) for the uint32 whose upper half is h: the width of int is the
\* build's, 64 bits (amd64, arm64) or 32 bits (386, arm)
IntOfUint32Hi(h, intBits) ==
    IF intBits = 32 /\ h >= 32768 THEN h - 65536 ELSE h

RECURSIVE Bytes(_)
Bytes(seq) ==
    IF seq = << >> THEN << >> ELSE BCat(Fill(Head(seq), 1), Bytes(Tail(seq)))

\* byte | (1 << bitIdx)
OrBit(byte, bitIdx) ==
    IF (byte \div (2 ^ bitIdx)) % 2 = 1 THEN byte ELSE byte + 2 ^ bitIdx

\* result[i / 8] |= (1 << (i % 8))
SetNullBit(bitmap, i) ==
    [bitmap EXCEPT ![(i \div 8) + 1] = OrBit(@, i % 8)]

\* (data[i / 8] & (1 << (i % 8))) != 0
IsNull(data, i) == (ByteAt(data, i \div 8) \div (2 ^ (i % 8))) % 2 = 1

serializeField(col, value) ==
    CASE col.Type = "INT" ->
           IF value.kind # "int" THEN [err |-> "TypeMismatch", data |-> << >>]
           ELSE [err |-> "none",
                 data |-> BCat(PutUint16(value.v[2]),
                               PutUint16(value.v[1] % 65536))]
      [] col.Type = "FLOAT" ->
           IF value.kind # "float" THEN [err |-> "TypeMismatch", data |-> << >>]
           ELSE [err |-> "none", data |-> value.v]
      [] col.Type = "STRING" ->
           IF value.kind # "string" THEN [err |-> "TypeMismatch", data |-> << >>]
           ELSE IF BLen(value.v) > col.Length
                THEN [err |-> "StringTooLong", data |-> << >>]
                ELSE [err |-> "none",
                      data |-> BCat(PutUint16(BLen(value.v) % 65536), value.v)]
      [] OTHER -> [err |-> "UnsupportedType", data |-> << >>]

\* the string case of deserializeField once the length is read: the slice
\* data[2 : 2+length] is bounded in uint16 arithmetic
deserializeString(data, length) ==
    IF BLen(data) < 2 + length
    THEN [err |-> "Truncated", value |-> NilValue, bytesRead |-> 0]
    ELSE IF (2 + length) % 65536 < 2
         THEN [err |-> "panic", value |-> NilValue, bytesRead |-> 0]
         ELSE [err |-> "none",
               value |-> StringValue(BSub(data, 2, ((2 + length) % 65536) - 2)),
               bytesRead |-> 2 + length]

deserializeField(col, data, intBits) ==
    CASE col.Type = "INT" ->
           IF BLen(data) < 4
           THEN [err |-> "Truncated", value |-> NilValue, bytesRead |-> 0]
           ELSE [err |-> "none",
                 value |-> IntValue(IntOfUint32Hi(Uint16(BDrop(data, 2)), intBits),
                                    Uint16(data)),
                 bytesRead |-> 4]
      [] col.Type = "FLOAT" ->
           IF BLen(data) < 8
           THEN [err |-> "Truncated", value |-> NilValue, bytesRead |-> 0]
           ELSE [err |-> "none", value |-> FloatValue(BTake(data, 8)),
                 bytesRead |-> 8]
      [] col.Type = "STRING" ->
           IF BLen(data) < 2
           THEN [err |-> "Truncated", value |-> NilValue, bytesRead |-> 0]
           ELSE deserializeString(data, Uint16(data))
      [] OTHER -> [err |-> "UnsupportedType", value |-> NilValue, bytesRead |-> 0]

\* the loop of Serialize from column i (counted from 1); bitmap and fields
\* are the two parts of `result`
RECURSIVE SerializeFrom(_, _, _, _, _)
RECURSIVE SerializeAppend(_, _, _, _, _, _)
SerializeFrom(schema, values, i, bitmap, fields) ==
    IF i > Len(schema)
    THEN [err |-> "none", data |-> BCat(Bytes(bitmap), fields)]
    ELSE IF values[i] = NilValue
         THEN IF ~schema[i].Nullable
              THEN [err |-> "NullNotAllowed", data |-> << >>]
              ELSE SerializeFrom(schema, values, i + 1,
                                 SetNullBit(bitmap, i - 1), fields)
         ELSE SerializeAppend(schema, values, i, bitmap, fields,
                              serializeField(schema[i], values[i]))

SerializeAppend(schema, values, i, bitmap, fields, f) ==
    IF f.err # "none" THEN [err |-> f.err, data |-> << >>]
    ELSE SerializeFrom(schema, values, i + 1, bitmap, BCat(fields, f.data))

Serialize(schema, values) ==
    IF Len(values) # Len(schema)
    THEN [err |-> "ValueCountMismatch", data |-> << >>]
    ELSE SerializeFrom(schema, values, 1,
                       [k \in 1 .. ((Len(schema) + 7) \div 8) |-> 0], << >>)

RECURSIVE DeserializeFrom(_, _, _, _, _, _)
RECURSIVE DeserializeStore(_, _, _, _, _, _, _)
DeserializeFrom(schema, data, intBits, i, offset, values) ==
    IF i > Len(schema) THEN [err |-> "none", values |-> values]
    ELSE IF IsNull(data, i - 1)
         THEN DeserializeFrom(schema, data, intBits, i + 1, offset,
                              Append(values, NilValue))
         ELSE DeserializeStore(schema, data, intBits, i, offset, values,
                               deserializeField(schema[i], BDrop(data, offset),
                                                intBits))

DeserializeStore(schema, data, intBits, i, offset, values, f) ==
    IF f.err # "none" THEN [err |-> f.err, values |-> << >>]
    ELSE DeserializeFrom(schema, data, intBits, i + 1, offset + f.bytesRead,
                         Append(values, f.value))

Deserialize(schema, data, intBits) ==
    IF BLen(data) = 0 THEN [err |-> "EmptyData", values |-> << >>]
    ELSE IF BLen(data) < (Len(schema) + 7) \div 8
         THEN [err |-> "Truncated", values |-> << >>]
         ELSE DeserializeFrom(schema, data, intBits, 1,
                              (Len(schema) + 7) \div 8, << >>)

\* ------------------------------------------------ the row codec on its own
\* the columns of the schemas tried: the four of the package's test, and a
\* string column whose declared maximum is above what two length bytes hold
Columns ==
    { Column("id", "INT", 0, FALSE),
      Column("age", "INT", 0, TRUE),
      Column("score", "FLOAT", 0, FALSE),
      Column("name", "STRING", 2, TRUE),
      Column("text", "STRING", 70000, FALSE) }

IntValues ==
    { IntValue(0, 0), IntValue(0, 25), IntValue(-1, 65535),
      IntValue(32767, 65535), IntValue(-32768, 0) }

\* 0.0 and 95.5
FloatValues ==
    { FloatValue(Fill(0, 8)),
      FloatValue(BCat(Fill(0, 5), Bytes(<< 224, 87, 64 >>))) }

StringValues(col) ==
    IF col.Length < 65536
    THEN { StringValue(Fill(97, n)) : n \in 0 .. (col.Length + 1) }
    ELSE { StringValue(Fill(97, n)) : n \in {1, 65533, 65534, 65535, 65536} }

\* the values tried in a column: those of its type, nil, and for a FLOAT
\* column an int
ValuesFor(col) ==
    {NilValue} \cup
    (CASE col.Type = "INT" -> IntValues
       [] col.Type = "FLOAT" -> FloatValues \cup {IntValue(0, 1)}
       [] col.Type = "STRING" -> StringValues(col))

SchemasTried ==
    UNION {[1 .. n -> Columns] : n \in 0 .. MaxColumns}
      \cup {[i \in 1 .. WideColumns |-> Column("age", "INT", 0, TRUE)]}

RowsFor(schema) ==
    IF Len(schema) <= MaxColumns
    THEN {values \in [1 .. Len(schema) -> UNION {ValuesFor(c) : c \in Columns}] :
             \A i \in 1 .. Len(schema) : values[i] \in ValuesFor(schema[i])}
           \cup {<< IntValue(0, 1) >>}
    ELSE [1 .. Len(schema) -> {NilValue, IntValue(0, 25)}]

\* the caller holds a schema and a row of values; the build fixes int's width
InitCodec ==
    /\ InitLayer /\ InitPage /\ InitDisk /\ InitFault /\ InitLock
    /\ \E schema \in SchemasTried, intBits \in {32, 64} :
         \E values \in RowsFor(schema) :
           codec = [phase |-> "row", intBits |-> intBits, schema |-> schema,
                    values |-> values,
                    ser |-> [err |-> "none", data |-> << >>],
                    de |-> [err |-> "none", values |-> << >>]]

CodecSerialize ==
    /\ codec.phase = "row"
    /\ codec' = [codec EXCEPT !.phase = "serialized",
                              !.ser = Serialize(codec.schema, codec.values)]
    /\ UNCHANGED << layerVars, pageVars, written, lastIO, conc >>

CodecDeserialize ==
    /\ codec.phase = "serialized"
    /\ codec.ser.err = "none"
    /\ codec' = [codec EXCEPT !.phase = "deserialized",
                              !.de = Deserialize(codec.schema, codec.ser.data,
                                                 codec.intBits)]
    /\ UNCHANGED << layerVars, pageVars, written, lastIO, conc >>

NextCodec == CodecSerialize \/ CodecDeserialize

SpecCodec == InitCodec /\ [][NextCodec]_vars

\* -------------------------------------------- the disk manager on its own
\* calls made directly on a DiskManager over an empty base path, as the
\* package's test makes them
DiskPageIDs == 0 .. (MaxPages - 1)

DiskBuffers ==
    { [n |-> PageSize, data |-> GetData(NewPage(0))],
      [n |-> PageSize, data |-> GetData(NewPage(1))],
      [n |-> 0, data |-> << >>],
      [n |-> PageSize - 1, data |-> << >>],
      [n |-> PageSize + 1, data |-> << >>] }

DiskApply(w) ==
    /\ files' = w.files
    /\ pageCounter' = w.pageCounter
    /\ tblFiles' = w.tblFiles
    /\ UNCHANGED << isOpen, catalog, indexes, pageCache, metaFile, idxFiles,
                    crashed, histVars, pageVars, codec, lastIO, conc >>

DiskWritten(o, t, pageID, buf) ==
    /\ DiskApply(o.st)
    /\ written' = IF o.err = "none" THEN Put(written, << t, pageID >>, buf.data)
                  ELSE written

DiskWrite(t, pageID, buf) ==
    DiskWritten(DiskWritePage(W, t, pageID, buf), t, pageID, buf)

DiskRead(t, pageID) ==
    /\ DiskApply(ReadPage(W, t, pageID).st)
    /\ UNCHANGED written

DiskAllocate(t) ==
    /\ GetPageCount(W, t) < MaxPages
    /\ DiskApply(AllocatePage(W, t).st)
    /\ UNCHANGED written

DiskCloseFiles ==
    /\ DiskApply(DiskClose(W))
    /\ UNCHANGED written

NextDisk ==
    \/ \E t \in Tables, pageID \in DiskPageIDs, buf \in DiskBuffers :
         DiskWrite(t, pageID, buf)
    \/ \E t \in Tables, pageID \in DiskPageIDs : DiskRead(t, pageID)
    \/ \E t \in Tables : DiskAllocate(t)
    \/ DiskCloseFiles

SpecDisk == Init /\ [][NextDisk]_vars

\* ------------------------------------------ the layer when I/O may fail
\* Both tables are created and filled, and every Flush and Close is made
\* under a plan.
FaultRecords == {RecA, RecBig}

\* the file operations of log that succeeded
Completed(log) == Len(SelectSeq(log, LAMBDA op : op.ok))

FlushedIO(o, op) ==
    /\ ApplyLayer(o.w)
    /\ lastIO' = [op |-> op, err |-> o.err, done |-> Completed(o.log)]
    /\ UNCHANGED << crashed, histVars, pageVars, codec, written, conc >>

FlushIO(plan) ==
    /\ ~crashed
    /\ FlushedIO(LayerFlushIO(W, plan), "Flush")

CloseIO(plan) ==
    /\ ~crashed
    /\ FlushedIO(LayerCloseIO(W, plan), "Close")

FlushAny == \E plan \in Plans(W) : FlushIO(plan)

CloseAny == \E plan \in Plans(W) : CloseIO(plan)

NextFault ==
    \/ Open
    \/ FlushAny
    \/ CloseAny
    \/ \E t \in Tables, schema \in CreatedSchemas : CreateTable(t, schema)
    \/ \E t \in Tables, r \in FaultRecords : Insert(t, r)

SpecFault == Init /\ [][NextFault]_vars

\* ======================================================================
\* Properties.  A property about what a call returns is stated over the
\* call's function, in every reachable state and for every argument.
\* ======================================================================
\* the tables of an open layer
OpenTablesOf(w) == IF w.isOpen THEN DOMAIN w.catalog ELSE {}

\* what Get returns: the error and the bytes
GetOutcome(g) == << g.err, g.data >>
GetResult(w, t, id) == GetOutcome(LayerGet(w, t, id))

\* what Scan returns: the error and the records
ScanOutcome(r) == << r.err, r.bag >>
ScanResult(w, t, f) == ScanOutcome(LayerScan(w, t, f))

\* the page of a table as the layer sees it: the cached page, else the page
\* of the heap file (clean), else nothing
PageView(w, t, pageID) ==
    IF pageID \in DOMAIN CacheOf(w, t)
    THEN << GetData(w.pageCache[t][pageID]), w.pageCache[t][pageID].dirty >>
    ELSE IF t \in DOMAIN w.tblFiles /\ pageID + 1 <= Len(w.tblFiles[t])
    THEN << w.tblFiles[t][pageID + 1], FALSE >>
    ELSE << >>

PageIDs == 0 .. MaxPages

\* ---------------------------------------------------------------- C1
\* the Insert of r into t with outcome o, if it succeeded, is read back by
\* Get, and every ID that read its bytes before still does
ReadBack(o, t, r) ==
    o.err = "none" =>
        /\ GetResult(o.w, t, o.id) = << "none", r >>
        /\ \A id \in DOMAIN live[t] :
               GetResult(W, t, id) = << "none", live[t][id] >> =>
                   GetResult(o.w, t, id) = << "none", live[t][id] >>

\* C1 (read-your-insert): on an open layer, whenever Insert(t, bytes)
\* succeeds and returns id, the index maps id to a (page, slot) whose
\* GetRecord returns exactly bytes, so Get(t, id) returns bytes; and a
\* further successful Insert leaves what Get returns for every ID that
\* was readable unchanged.
C1_ReadYourInsert ==
    \A t \in OpenTablesOf(W), r \in Records :
        ReadBack(LayerInsert(W, t, r), t, r)

\* the same for records of at least one byte (holds)
C1_NonEmptyRecords ==
    \A t \in OpenTablesOf(W), r \in Records \ {EmptyRec} :
        ReadBack(LayerInsert(W, t, r), t, r)

\* ---------------------------------------------------------------- C2
\* Flush then Close, then Open by the same object or by a fresh one
Closed(w) == LayerClose(LayerFlush(w).w).w
ReopenedSame(c) == LayerOpen(c)
ReopenedFresh(c) == LayerOpen(NewLayer(c))

\* what the calls of the API read from w: per table, the result of
\* Scan(t, nil) and the result of Get for every ID
Contents(w) ==
    [t \in DOMAIN w.catalog |->
        << ScanResult(w, t, "nil"), [id \in IDs |-> GetResult(w, t, id)] >>]

\* the Open with outcome o succeeded and reads what was read before
Restored(o, before) ==
    /\ o.err = "none"
    /\ o.w.isOpen
    /\ Contents(o.w) = before

RestoredBoth(c, before) ==
    /\ Restored(ReopenedSame(c), before)
    /\ Restored(ReopenedFresh(c), before)

\* C2 (durability across restart): from every state of an open layer,
\* Flush and Close followed by Open of the same base path, by the same
\* object or by a fresh one, succeeds and yields for every table the same
\* Scan(table, nil) multiset and the same Get result for every ID as
\* immediately before Close.
C2_Durable == isOpen => RestoredBoth(Closed(W), Contents(W))

\* the layer was reopened (nothing cached yet, index loaded from its file),
\* holds a record that was updated and one ID was deleted, and Get and
\* Scan read the record from the heap file
C2_Witness ==
    /\ isOpen
    /\ "users" \in DOMAIN catalog
    /\ pageCache["users"] = NoMap
    /\ deleted["users"] = {1}
    /\ live["users"] = (2 :> RecB)
    /\ GetResult(W, "users", 2) = << "none", RecB >>
    /\ ScanResult(W, "users", "nil") = << "none", SetToBag({RecB}) >>
    /\ RestoredBoth(Closed(W), Contents(W))

\* ---------------------------------------------------------------- C3
\* the Insert into t with outcome o, if it succeeded, returned the ID after
\* the largest one t ever issued
IssuedNext(o, t) ==
    o.err = "none" =>
        /\ o.id = maxIssued[t] + 1
        /\ o.id \notin deleted[t] \cup DOMAIN live[t]

\* C3 (record IDs): in every reachable state of an open layer, a
\* successful Insert into a table returns one more than the largest ID
\* the table ever issued: 1 on a newly created table, never an ID issued
\* before, also after earlier IDs were deleted and after Flush, Close and
\* Open.
C3_IDsIncrease ==
    \A t \in OpenTablesOf(W), r \in Records :
        IssuedNext(LayerInsert(W, t, r), t)

\* the only ID issued so far was deleted, the layer was reopened (nothing
\* cached, the index is the one loaded from the file), and Insert issues 2
C3_Witness ==
    /\ isOpen
    /\ "users" \in DOMAIN catalog
    /\ pageCache["users"] = NoMap
    /\ maxIssued["users"] = 1
    /\ deleted["users"] = {1}
    /\ indexes["users"].index = NoMap
    /\ LayerInsert(W, "users", RecA).err = "none"
    /\ LayerInsert(W, "users", RecA).id = 2

\* ---------------------------------------------------------------- C4
\* the Update of id with r with outcome o, if it succeeded, is read back by
\* Get and left the index alone
UpdateReadBack(o, t, id, r) ==
    o.err = "none" =>
        /\ GetResult(o.w, t, id) = << "none", r >>
        /\ o.w.indexes = indexes
        /\ id \in DOMAIN indexes[t].index

\* C4 (read-your-update): on an open layer, whenever Update(t, id, bytes)
\* succeeds, Get(t, id) returns exactly bytes afterwards, and the index is
\* unchanged: id maps to the same (page, slot), no ID was issued.
C4_ReadYourUpdate ==
    \A t \in OpenTablesOf(W), id \in IDs, r \in Records :
        UpdateReadBack(LayerUpdate(W, t, id, r), t, id, r)

\* an Update stored "b" under ID 1 (Insert never stores "b"), and the
\* record is read back
C4_Witness ==
    /\ isOpen
    /\ "users" \in DOMAIN catalog
    /\ 1 \in DOMAIN live["users"]
    /\ live["users"][1] = RecB
    /\ GetResult(W, "users", 1) = << "none", RecB >>
    /\ LayerUpdate(W, "users", 1, RecA).err = "none"

\* ---------------------------------------------------------------- C5
\* C5 (delete is final): on an open layer, an ID that a successful
\* DeleteRecord removed is not in the index, and Get, Update and
\* DeleteRecord of it fail with NotFound, also after its slot was reused
\* and after Flush, Close and Open.
C5_DeletedStaysDeleted ==
    \A t \in OpenTablesOf(W) :
        \A id \in deleted[t] :
            /\ id \notin DOMAIN indexes[t].index
            /\ LayerGet(W, t, id).err = "NotFound"
            /\ LayerDeleteRecord(W, t, id).err = "NotFound"
            /\ \A r \in Records : LayerUpdate(W, t, id, r).err = "NotFound"

\* ID 1 was deleted, ID 2 took over its slot, and the layer was reopened
C5_Witness ==
    /\ isOpen
    /\ "users" \in DOMAIN catalog
    /\ pageCache["users"] = NoMap
    /\ deleted["users"] = {1}
    /\ DOMAIN indexes["users"].index = {2}
    /\ indexes["users"].index[2] = RecordID(0, 0)
    /\ LayerGet(W, "users", 1).err = "NotFound"

\* ---------------------------------------------------------------- C6
\* the records Get returns for the IDs ids that pass filter f, as a bag
RECURSIVE GetBag(_, _, _, _)
GetBag(w, t, ids, f) ==
    IF ids = {} THEN EmptyBag
    ELSE LET id == CHOOSE x \in ids : TRUE
             g == LayerGet(w, t, id)
         IN  (IF g.err = "none" /\ Passes(f, g.data)
              THEN SetToBag({g.data}) ELSE EmptyBag)
             (+) GetBag(w, t, ids \ {id}, f)

\* C6 (Scan): on an open layer Scan(t, nil) succeeds and returns exactly one
\* record per live ID of t (inserted and not deleted), each the record Get
\* returns for that ID, and Scan(t, f) returns the sub-multiset of those
\* records that pass f.
C6_ScanExact ==
    \A t \in OpenTablesOf(W) :
        /\ LayerScan(W, t, "nil").err = "none"
        /\ BagCardinality(LayerScan(W, t, "nil").bag)
             = Cardinality(DOMAIN live[t])
        /\ \A f \in Filters :
               LayerScan(W, t, f).bag = GetBag(W, t, DOMAIN live[t], f)

\* ---------------------------------------------------------------- C7
\* the index and every page of t are as before
SameTable(w, v, t) ==
    /\ v.indexes = w.indexes
    /\ \A pageID \in PageIDs : PageView(v, t, pageID) = PageView(w, t, pageID)

\* the call with outcome o, if it failed, left t as it was
NoOpIfFailed(o, t) == o.err # "none" => SameTable(W, o.w, t)

\* a failed Update or DeleteRecord of a table of the catalog leaves the
\* index, the page images and the dirty flags as they were
C7_FailedIsNoOp ==
    \A t \in OpenTablesOf(W), id \in IDs :
        /\ NoOpIfFailed(LayerDeleteRecord(W, t, id), t)
        /\ \A r \in Records : NoOpIfFailed(LayerUpdate(W, t, id, r), t)

\* Update and DeleteRecord of an ID that is not live fail with NotFound;
\* Update of a live ID with bytes of another length than the bytes last
\* stored under the ID fails with SizeMismatch
C7_FailureCauses ==
    \A t \in OpenTablesOf(W), id \in IDs :
        IF id \in DOMAIN live[t]
        THEN \A r \in Records :
                 BLen(r) # BLen(live[t][id]) =>
                     LayerUpdate(W, t, id, r).err = "SizeMismatch"
        ELSE /\ LayerDeleteRecord(W, t, id).err = "NotFound"
             /\ \A r \in Records : LayerUpdate(W, t, id, r).err = "NotFound"

\* C7 (failed Update or DeleteRecord): Update of an unknown ID and
\* DeleteRecord of an unknown ID fail, Update with bytes whose length
\* differs from the stored record's fails with SizeMismatch, and a failed
\* Update or DeleteRecord leaves the page image, the page's dirty flag and
\* the index (mappings and next ID) as they were.
C7_FailedUpdateDelete == C7_FailureCauses /\ C7_FailedIsNoOp

\* ---------------------------------------------------------------- C8
\* the Insert into t with outcome o, if it failed, left the page count, the
\* page cache and the index as they were
NothingAllocated(o, t) ==
    o.err # "none" =>
        /\ GetPageCount(o.w, t) = GetPageCount(W, t)
        /\ o.w.pageCache = pageCache
        /\ o.w.indexes = indexes

\* C8 (failed Insert): whenever Insert(t, bytes) returns an error, the
\* table's page count (GetPageCount), the page cache with every cached page
\* image, and the index (mappings and next ID) are as before the call.
C8_FailedInsertIsNoOp ==
    \A t \in Tables, r \in Records :
        NothingAllocated(LayerInsert(W, t, r), t)

\* the Insert with outcome o, if it failed, left the index as it was
IndexKept(o) == o.err # "none" => o.w.indexes = indexes

\* the same for the index alone (holds)
C8_FailedInsertKeepsIndex ==
    \A t \in Tables, r \in Records : IndexKept(LayerInsert(W, t, r))

\* ---------------------------------------------------------------- C9
\* the call with outcome o on state w failed with NotOpen and changed nothing
Refused(o, w) == o.err = "NotOpen" /\ o.w = w

\* every call but Open and Close is refused in state w
AllRefused(w) ==
    /\ Refused(LayerFlush(w), w)
    /\ \A t \in Tables :
           /\ \A schema \in Schemas : Refused(LayerCreateTable(w, t, schema), w)
           /\ \A r \in Records : Refused(LayerInsert(w, t, r), w)
           /\ \A f \in Filters : Refused(LayerScan(w, t, f), w)
           /\ \A id \in IDs :
                  /\ Refused(LayerGet(w, t, id), w)
                  /\ Refused(LayerDeleteRecord(w, t, id), w)
                  /\ \A r \in Records : Refused(LayerUpdate(w, t, id, r), w)

\* the files of c hold what the memory of w holds: the catalog, every index,
\* and the image of every cached page
FlushedTo(w, c) ==
    /\ "tables.meta" \in DOMAIN c.metaFile
    /\ UnmarshalCatalog(c.metaFile["tables.meta"]) = w.catalog
    /\ \A t \in DOMAIN w.indexes :
           /\ t \in DOMAIN c.idxFiles
           /\ UnmarshalIndex(c.idxFiles[t]) = w.indexes[t]
    /\ \A t \in DOMAIN w.pageCache :
           \A pageID \in DOMAIN w.pageCache[t] :
               /\ t \in DOMAIN c.tblFiles
               /\ pageID + 1 <= Len(c.tblFiles[t])
               /\ c.tblFiles[t][pageID + 1] = GetData(w.pageCache[t][pageID])
               /\ ~IsDirty(c.pageCache[t][pageID])

\* the Close with outcome o of the open layer succeeded, flushed, and left
\* a layer that is not open
ClosedFlushed(o) ==
    /\ o.err = "none"
    /\ ~o.w.isOpen
    /\ o.w.files = {}
    /\ FlushedTo(W, o.w)
    /\ AllRefused(o.w)

\* C9 (the open flag gates the API): in every reachable state, Open on an
\* open layer fails with AlreadyOpen and changes nothing; on a layer that
\* is not open CreateTable, Insert, Get, Update, DeleteRecord, Scan and
\* Flush fail with NotOpen and change nothing, and Close succeeds and
\* changes nothing; Close on an open layer succeeds, leaves the layer not
\* open with no file handle, and the files hold the flushed state: the
\* catalog, every index and every cached page image.
C9_OpenFlagGates ==
    IF isOpen
    THEN /\ LayerOpen(W) = [err |-> "AlreadyOpen", w |-> W]
         /\ ClosedFlushed(LayerClose(W))
    ELSE /\ LayerClose(W) = [err |-> "none", w |-> W]
         /\ AllRefused(W)

\* an open layer with a dirty page and an index that differs from its file:
\* Close has work to do, and refuses nothing yet
C9_Witness ==
    /\ isOpen
    /\ "users" \in DOMAIN catalog
    /\ 0 \in DOMAIN pageCache["users"]
    /\ IsDirty(pageCache["users"][0])
    /\ indexes["users"].index # NoMap
    /\ ~FlushedTo(W, W)
    /\ FlushedTo(W, LayerClose(W).w)
    /\ LayerInsert(LayerClose(W).w, "users", RecA).err = "NotOpen"

\* --------------------------------------------------------------- C10
\* the CreateTable with outcome o was refused as a duplicate and changed
\* nothing
Duplicate(o, t) ==
    /\ o = [err |-> "DuplicateTable", w |-> W]
    /\ \A id \in IDs : GetResult(o.w, t, id) = GetResult(W, t, id)

\* the CreateTable with outcome o added table t with schema
Created(o, t, schema) ==
    /\ o.err = "none"
    /\ o.w.catalog = Put(catalog, t, schema)
    /\ UnmarshalCatalog(o.w.metaFile["tables.meta"]) = Put(catalog, t, schema)
    /\ LayerOpen(NewLayer(o.w)).w.catalog = Put(catalog, t, schema)
    /\ o.w.indexes[t] = [index |-> NoMap, nextID |-> 1]
    /\ o.w.pageCache[t] = NoMap
    /\ \A u \in DOMAIN catalog :
           /\ o.w.indexes[u] = indexes[u]
           /\ o.w.pageCache[u] = pageCache[u]

\* C10 (CreateTable): on an open layer, CreateTable with a name of the
\* catalog fails with DuplicateTable and changes nothing (schema, index and
\* page cache stay, every ID reads as before); CreateTable with a new name
\* succeeds, adds the schema to the catalog, writes the catalog file at
\* once (a fresh process that opens the base path sees the table), gives
\* the table an empty index with next ID 1 and an empty page cache, and
\* leaves the other tables as they were.
C10_CreateTable ==
    isOpen =>
        \A t \in Tables, schema \in Schemas :
            IF t \in DOMAIN catalog
            THEN Duplicate(LayerCreateTable(W, t, schema), t)
            ELSE Created(LayerCreateTable(W, t, schema), t, schema)

\* "users" was created and holds a record: creating it again is refused,
\* creating "orders" is not
C10_Witness ==
    /\ isOpen
    /\ "users" \in DOMAIN catalog
    /\ catalog["users"] = "usersSchema"
    /\ GetResult(W, "users", 1) = << "none", RecA >>
    /\ LayerCreateTable(W, "users", "otherSchema").err = "DuplicateTable"
    /\ LayerCreateTable(W, "orders", "otherSchema").err = "none"
    /\ DOMAIN LayerCreateTable(W, "orders", "otherSchema").w.catalog
         = {"users", "orders"}

\* --------------------------------------------------------------- C11
\* the pages in the caches of w, as a set
PagesOf(w) ==
    UNION {{w.pageCache[t][pageID] : pageID \in DOMAIN w.pageCache[t]} :
              t \in DOMAIN w.pageCache}

\* the free-space fields of page p agree with its slot count
FreeSpaceOK(p) ==
    /\ p.hdr.FreeStart = PageHeaderSize + p.hdr.SlotCount * SlotEntrySize
    /\ p.hdr.FreeStart <= p.hdr.FreeEnd
    /\ p.hdr.FreeEnd <= PageSize

\* C11 (page free-space invariant): every page in a page cache, made by
\* NewPage or loaded by LoadPage, has
\* FreeStart = PageHeaderSize + SlotCount * SlotEntrySize and
\* FreeStart <= FreeEnd <= PageSize, after any sequence of calls of the
\* storage layer.
C11_FreeSpace == \A p \in PagesOf(W) : FreeSpaceOK(p)

\* --------------------------------------------------------------- C12
\* the slots of p that hold a record
NonEmptySlots(p) == {i \in 0 .. (p.hdr.SlotCount - 1) : readSlot(p, i).Size # 0}

\* the region of slot a lies in [FreeEnd, PageSize)
InRecordArea(p, a) ==
    /\ p.hdr.FreeEnd <= a.Offset
    /\ a.Offset + a.Size <= PageSize

\* the regions of slots a and b share no byte
Disjoint(a, b) ==
    \/ a.Offset + a.Size <= b.Offset
    \/ b.Offset + b.Size <= a.Offset

RegionsOK(p) ==
    \A i \in NonEmptySlots(p) :
        /\ InRecordArea(p, readSlot(p, i))
        /\ \A j \in NonEmptySlots(p) \ {i} :
               Disjoint(readSlot(p, i), readSlot(p, j))

\* C12 (record regions): after any sequence of InsertRecord, UpdateRecord
\* and DeleteRecord calls on a page, every non-empty slot s has
\* FreeEnd <= s.Offset and s.Offset + s.Size <= PageSize, and the regions of
\* two distinct non-empty slots are disjoint.
C12_RecordRegions == RegionsOK(onePage)

\* slot 0 was tombstoned and reused after slot 1 was filled: both slots
\* hold a record and that of slot 0 lies below that of slot 1
C12_Witness ==
    /\ onePage.hdr.SlotCount = 2
    /\ NonEmptySlots(onePage) = {0, 1}
    /\ readSlot(onePage, 0).Offset < readSlot(onePage, 1).Offset
    /\ pageInserts = 3

\* --------------------------------------------------------------- C13
\* values satisfies schema: one value per column, nil only in nullable
\* columns, ints within the signed 32-bit range, strings no longer than the
\* declared maximum
SatisfiesColumn(col, value) ==
    CASE value.kind = "nil" -> col.Nullable
      [] col.Type = "INT" ->
           /\ value.kind = "int"
           /\ value.v[1] \in -32768 .. 32767
           /\ value.v[2] \in 0 .. 65535
      [] col.Type = "FLOAT" -> value.kind = "float"
      [] col.Type = "STRING" ->
           value.kind = "string" /\ BLen(value.v) <= col.Length
      [] OTHER -> FALSE

Satisfies(schema, values) ==
    /\ Len(values) = Len(schema)
    /\ \A i \in 1 .. Len(schema) : SatisfiesColumn(schema[i], values[i])

\* C13: for every schema and every row of values that satisfies it,
\* Serialize succeeds and Deserialize of the bytes succeeds and returns the
\* row, element by element.
C13_RoundTrip ==
    (codec.phase # "idle" /\ Satisfies(codec.schema, codec.values)) =>
        /\ codec.phase # "row" => codec.ser.err = "none"
        /\ codec.phase = "deserialized" =>
             (codec.de.err = "none" /\ codec.de.values = codec.values)

\* the round trip does hold on a 32-bit build for rows of at least one
\* column whose strings are shorter than 65534 bytes
C13_RoundTripNarrow ==
    (/\ codec.phase = "deserialized"
     /\ Satisfies(codec.schema, codec.values)
     /\ codec.intBits = 32
     /\ Len(codec.schema) > 0
     /\ \A i \in 1 .. Len(codec.values) :
          codec.values[i].kind = "string" => BLen(codec.values[i].v) < 65534) =>
        (codec.de.err = "none" /\ codec.de.values = codec.values)

\* --------------------------------------------------------------- C14
\* ReadPage(t, pageID) on the current state returns data without an error
ReadsBack(o, data) == o.err = "none" /\ o.data = data

\* WritePage of buf is refused and changes nothing
WriteRefused(o) == o.err # "none" /\ o.st = W

\* C14: ReadPage returns the data of the last successful WritePage to the
\* same table and page, whatever was written to other pages and tables
\* since; WritePage of a buffer whose length is not PageSize fails and
\* writes nothing; ReadPage fails when the heap file is shorter than
\* (pageID + 1) * PageSize.
C14_PageRoundTrip ==
    /\ \A key \in DOMAIN written :
         ReadsBack(ReadPage(W, key[1], key[2]), written[key])
    /\ \A t \in Tables, pageID \in DiskPageIDs, buf \in DiskBuffers :
         buf.n # PageSize => WriteRefused(DiskWritePage(W, t, pageID, buf))
    /\ \A t \in Tables, pageID \in DiskPageIDs :
         (t \notin DOMAIN tblFiles \/ Len(tblFiles[t]) < pageID + 1) =>
             ReadPage(W, t, pageID).err # "none"

\* both pages of one table and a page of the other were written, page 0 of
\* "users" last and with other data than page 1, and a page that was never
\* written lies past the end of its file
C14_Witness ==
    /\ DOMAIN written = {<< "users", 0 >>, << "users", 1 >>, << "orders", 0 >>}
    /\ written[<< "users", 0 >>] # written[<< "users", 1 >>]
    /\ written[<< "users", 0 >>] = GetData(NewPage(1))
    /\ Len(tblFiles["orders"]) = 1
    /\ files = {}

\* --------------------------------------------------------------- C15
\* the pages allocated to t: those counted by the disk manager and those of
\* the heap file
PagesAllocated(w, t) ==
    IF t \in DOMAIN w.tblFiles /\ Len(w.tblFiles[t]) > GetPageCount(w, t)
    THEN Len(w.tblFiles[t])
    ELSE GetPageCount(w, t)

\* page pageID of t, cached or in the heap file, exists and its InsertRecord
\* accepts r
AcceptsAt(w, t, pageID, r) ==
    /\ PageView(w, t, pageID) # << >>
    /\ InsertRecord(LoadPage(pageID, PageView(w, t, pageID)[1]), r).err = "none"

\* the page on which the Insert with outcome o stored its record
PlacedOn(o, t) == o.w.indexes[t].index[o.id].PageID

\* the Insert of r into t with outcome o, if it succeeded, chose the lowest
\* allocated page that accepts r, and a new page only when there is none,
\* which is then cached
FirstFit(o, t, r) ==
    o.err = "none" =>
        /\ \A pageID \in 0 .. (PagesAllocated(W, t) - 1) :
               pageID < PlacedOn(o, t) => ~AcceptsAt(W, t, pageID, r)
        /\ PlacedOn(o, t) \in DOMAIN CacheOf(o.w, t)

\* C15 (first fit): Insert stores the record in the lowest-numbered page
\* allocated to the table that accepts it, pages that exist only in the
\* heap file included; it allocates a new page only when every allocated
\* page rejects the record, and caches the new page.
C15_FirstFit ==
    \A t \in Tables, r \in InsertRecords : FirstFit(LayerInsert(W, t, r), t, r)

\* the same while the disk manager has counted the pages of the heap file
\* (holds)
C15_FirstFitCounted ==
    \A t \in Tables, r \in InsertRecords :
        (t \in DOMAIN tblFiles => Len(tblFiles[t]) <= GetPageCount(W, t)) =>
            FirstFit(LayerInsert(W, t, r), t, r)

\* --------------------------------------------------------------- C16
FitsPage(p, r) == p.hdr.FreeEnd - p.hdr.FreeStart >= BLen(r) + SlotEntrySize

\* InsertRecord of r on p with outcome o succeeded exactly when r fits, and
\* otherwise failed with PageFull and left the page, its dirty flag
\* included, as it was
Boundary(o, p, r) ==
    /\ (o.err = "none") <=> FitsPage(p, r)
    /\ o.err # "none" => (o.err = "PageFull" /\ o.page = p)

\* no page allocated to t accepts r, and an empty page does
NeedsNewPage(w, t, r) ==
    /\ w.isOpen /\ t \in DOMAIN w.catalog
    /\ FitsPage(NewPage(0), r)
    /\ \A pageID \in 0 .. (PagesAllocated(w, t) - 1) : ~AcceptsAt(w, t, pageID, r)

\* the Insert with outcome o succeeded on a page that was not allocated
\* before and returned an ID that was never issued
OnNewPage(o, t) ==
    /\ o.err = "none"
    /\ PlacedOn(o, t) >= PagesAllocated(W, t)
    /\ PlacedOn(o, t) \in DOMAIN CacheOf(o.w, t)
    /\ PlacedOn(o, t) \notin DOMAIN CacheOf(W, t)
    /\ o.id \notin DOMAIN indexes[t].index
    /\ o.id > maxIssued[t]

\* C16 (PageFull boundary): InsertRecord succeeds if and only if
\* FreeEnd - FreeStart >= len(record) + SlotEntrySize, so that an empty page
\* takes 4074 bytes and refuses 4075; a refusal leaves the page image and
\* the dirty flag unchanged; and Insert of a record that no allocated page
\* accepts, but an empty page does, succeeds on a newly allocated page with
\* a fresh ID.
C16_PageFullBoundary ==
    /\ \A p \in PagesOf(W) \cup {onePage} :
         \A r \in PageRecords(p) : Boundary(InsertRecord(p, r), p, r)
    /\ BLen(RecBig) = 4074 /\ BLen(RecHuge) = 4075
    /\ \A t \in Tables, r \in Records :
         NeedsNewPage(W, t, r) => OnNewPage(LayerInsert(W, t, r), t)

\* a record of 4074 bytes fills page 0, and a later Insert went to page 1
\* under the next ID
C16_Witness ==
    /\ isOpen
    /\ DOMAIN live["users"] = {1, 2}
    /\ live["users"][1] = RecBig
    /\ indexes["users"].index[1].PageID = 0
    /\ indexes["users"].index[2].PageID = 1
    /\ ~FitsPage(pageCache["users"][0], RecA)

\* the boundary on the single page, where the free space shrinks insert by
\* insert (holds in SpecPage)
C16_PageBoundary ==
    \A r \in PageRecords(onePage) :
        Boundary(InsertRecord(onePage, r), onePage, r)

\* --------------------------------------------------------------- C17
\* the slots of p in [0, SlotCount) whose Size is 0
EmptySlots(p) == {i \in 0 .. (p.hdr.SlotCount - 1) : readSlot(p, i).Size = 0}

\* i is the lowest empty slot of p
LowestEmpty(p, i) == i \in EmptySlots(p) /\ \A j \in EmptySlots(p) : i <= j

\* InsertRecord on p with outcome o, if it succeeded, reused the lowest
\* empty slot without growing the slot directory, or appended a slot when
\* there was none
ReusedOrAppended(o, p) ==
    o.err = "none" =>
        IF EmptySlots(p) # {}
        THEN /\ LowestEmpty(p, o.slotID)
             /\ o.page.hdr.SlotCount = p.hdr.SlotCount
             /\ o.page.hdr.FreeStart = p.hdr.FreeStart
        ELSE /\ o.slotID = p.hdr.SlotCount
             /\ o.page.hdr.SlotCount = p.hdr.SlotCount + 1
             /\ o.page.hdr.FreeStart = p.hdr.FreeStart + SlotEntrySize

\* after DeleteRecord(slotID) with outcome d, a successful InsertRecord
\* returns slotID when that is the lowest empty slot
ReusedAfterDelete(d, slotID, r) ==
    (d.err = "none" /\ LowestEmpty(d.page, slotID)
       /\ InsertRecord(d.page, r).err = "none") =>
        InsertRecord(d.page, r).slotID = slotID

\* C17 (slot reuse): a successful InsertRecord returns the lowest slot in
\* [0, SlotCount) whose Size is 0 when there is one and leaves SlotCount and
\* FreeStart unchanged; only when no slot is empty does it append at index
\* SlotCount, adding 1 to SlotCount and SlotEntrySize to FreeStart.
\* DeleteRecord(s) followed by InsertRecord returns s when s is the lowest
\* empty slot.
C17_SlotReuse ==
    /\ \A r \in PageRecords(onePage) :
         ReusedOrAppended(InsertRecord(onePage, r), onePage)
    /\ \A slotID \in SlotIDs, r \in PageRecords(onePage) :
         ReusedAfterDelete(PageDeleteRecord(onePage, slotID), slotID, r)

\* three one-byte records were inserted and the page has two slots, both in
\* use: one insert went into a slot that a delete had emptied
C17_Witness ==
    /\ pageInserts = 3
    /\ onePage.hdr.SlotCount = 2
    /\ readSlot(onePage, 0).Size = 1 /\ readSlot(onePage, 1).Size = 1
    /\ onePage.hdr.FreeEnd = PageSize - 3

\* --------------------------------------------------------------- C18
FreeBytes(p) == p.hdr.FreeEnd - p.hdr.FreeStart

\* DeleteRecord(slotID) on p with outcome o, if it succeeded, set slot
\* slotID to (0, 0), marked the page dirty and changed nothing else
OnlyTombstoned(o, p, slotID) ==
    o.err = "none" =>
        /\ readSlot(o.page, slotID) = SlotEntry(0, 0)
        /\ o.page.dirty
        /\ o.page.hdr = p.hdr
        /\ o.page.tail = p.tail
        /\ o.page.PageID = p.PageID
        /\ \A i \in 0 .. (p.hdr.SlotCount - 1) :
               i # slotID => readSlot(o.page, i) = readSlot(p, i)

DeleteOnlyTombstones ==
    \A slotID \in SlotIDs :
        OnlyTombstoned(PageDeleteRecord(onePage, slotID), onePage, slotID)

\* C18 (no compaction): a successful DeleteRecord(s) sets only slot s to
\* (0, 0) and marks the page dirty, leaving SlotCount, FreeStart, FreeEnd,
\* every other slot and every record byte unchanged; and no operation on
\* a page ever increases FreeEnd - FreeStart.
C18_NoCompaction ==
    /\ []DeleteOnlyTombstones
    /\ [][FreeBytes(onePage') <= FreeBytes(onePage)]_vars

\* a one-byte record was inserted and deleted: its slot is (0, 0) and its
\* byte is still below FreeEnd's old position
C18_Witness ==
    /\ pageInserts = 1
    /\ onePage.hdr.SlotCount = 1
    /\ readSlot(onePage, 0) = SlotEntry(0, 0)
    /\ onePage.hdr.FreeEnd = PageSize - 1
    /\ onePage.dirty

\* --------------------------------------------------------------- C19
\* the place of a file operation in the order catalog, indexes, pages
Rank(op) == CASE op.kind = "catalog" -> 1 [] op.kind = "index" -> 2 [] op.kind = "page" -> 3

\* the file operations of log were made catalog first, indexes next, pages
\* last: the catalog once, every index once before the first page
InOrder(w, log) ==
    /\ \A i, j \in 1 .. Len(log) : i < j => Rank(log[i]) <= Rank(log[j])
    /\ \A i \in 1 .. Len(log) :
         log[i].kind = "page" =>
             /\ log[1].kind = "catalog" /\ log[1].ok
             /\ \A t \in DOMAIN w.indexes :
                    \E j \in 1 .. (i - 1) :
                        log[j].kind = "index" /\ log[j].t = t /\ log[j].ok

\* a Flush with outcome o that failed on the catalog or on an index wrote
\* no page and cleared no dirty flag
NoPageTouched(o, w) ==
    o.err \in {"CatalogSaveFailed", "IndexSaveFailed"} =>
        /\ o.w.tblFiles = w.tblFiles
        /\ o.w.pageCache = w.pageCache
        /\ \A i \in 1 .. Len(o.log) : o.log[i].kind # "page"

FlushOrdered(o, w) == InOrder(w, o.log) /\ NoPageTouched(o, w)

\* C19 (flush ordering): within one Flush the catalog is saved before any
\* index, and every index before any dirty page is written; if the catalog
\* save or an index save fails, no page is written and no dirty flag is
\* cleared by that Flush.
C19_FlushOrder ==
    \A plan \in Plans(W) : FlushOrdered(LayerFlushIO(W, plan), W)

\* the last Flush saved the catalog and one index and failed on the other
\* index, while a cached page is dirty
C19_Witness ==
    /\ lastIO.op = "Flush"
    /\ lastIO.err = "IndexSaveFailed"
    /\ lastIO.done = 2
    /\ \E p \in PagesOf(W) : p.dirty

\* a Flush under a plan without failure is the Flush of Spec (holds)
C19_SameAsFlush ==
    \A plan \in Plans(W) :
        plan.failAt = 0 => LayerFlushIO(W, plan).w = LayerFlush(W).w

\* --------------------------------------------------------------- C20
\* the cached pages that are dirty in w and clean in w2
ClearedBy(w, w2) ==
    {x \in CachedPages(w) \cap CachedPages(w2) :
        IsDirty(w.pageCache[x[1]][x[2]]) /\ ~IsDirty(w2.pageCache[x[1]][x[2]])}

\* log holds a WritePage of page x that succeeded
WrittenIn(log, x) ==
    \E i \in 1 .. Len(log) :
        log[i].kind = "page" /\ log[i].t = x[1] /\ log[i].pageID = x[2] /\ log[i].ok

\* the Flush or Close with outcome o cleared the flag of those pages only
\* whose full image it wrote to the heap file, and a page whose WritePage
\* failed is still dirty
ClearedAfterWrite(o, w) ==
    /\ \A x \in ClearedBy(w, o.w) :
         /\ WrittenIn(o.log, x)
         /\ Len(o.w.tblFiles[x[1]]) >= x[2] + 1
         /\ o.w.tblFiles[x[1]][x[2] + 1] = GetData(w.pageCache[x[1]][x[2]])
         /\ GetData(o.w.pageCache[x[1]][x[2]]) = GetData(w.pageCache[x[1]][x[2]])
    /\ \A i \in 1 .. Len(o.log) :
         (o.log[i].kind = "page" /\ ~o.log[i].ok) =>
             IsDirty(o.w.pageCache[o.log[i].t][o.log[i].pageID])

\* the rule for a Flush with outcome f and the Close with outcome c made
\* under the same plan: what Close does after its Flush clears nothing
DirtyRule(f, c, w) ==
    /\ ClearedAfterWrite(f, w)
    /\ ClearedAfterWrite(c, w)
    /\ ClearedBy(f.w, c.w) = {}

\* the call that led from the current state to w2 cleared no dirty flag
NeverClears(w2) == ClearedBy(W, w2) = {}

\* C20 (dirty flag): a cached page goes from dirty to clean only by a
\* WritePage of its full image that succeeded, in Flush or in the Flush
\* that Close runs; a page whose WritePage fails stays dirty; Get, Scan,
\* Insert, Update and DeleteRecord, failed or not, and the steps of Close
\* after its Flush clear no dirty flag.
C20_DirtyFlag ==
    /\ \A plan \in Plans(W) :
         DirtyRule(LayerFlushIO(W, plan), LayerCloseIO(W, plan), W)
    /\ \A t \in Tables, id \in IDs :
         /\ NeverClears(LayerGet(W, t, id).w)
         /\ NeverClears(LayerDeleteRecord(W, t, id).w)
         /\ \A r \in Records : NeverClears(LayerUpdate(W, t, id, r).w)
    /\ \A t \in Tables, f \in Filters : NeverClears(LayerScan(W, t, f).w)
    /\ \A t \in Tables, r \in Records : NeverClears(LayerInsert(W, t, r).w)

\* the last Flush saved the catalog and the indexes, wrote one page and
\* failed on the next: the cache holds a clean page, whose image is in the
\* heap file, and a dirty one
C20_Witness ==
    /\ lastIO.op = "Flush"
    /\ lastIO.err = "WritePageFailed"
    /\ lastIO.done = Cardinality(DOMAIN indexes) + 2
    /\ \E x \in CachedPages(W) :
         /\ ~IsDirty(pageCache[x[1]][x[2]])
         /\ PageView(NewLayer(W), x[1], x[2]) = << GetData(pageCache[x[1]][x[2]]), FALSE >>
    /\ DirtyPages(W) # {}

\* --------------------------------------------------------------- C21
\* in w every cached page is clean and equal to its page of the heap file
CacheOnDisk(w) ==
    \A x \in CachedPages(w) :
        /\ ~IsDirty(w.pageCache[x[1]][x[2]])
        /\ x[1] \in DOMAIN w.tblFiles
        /\ Len(w.tblFiles[x[1]]) >= x[2] + 1
        /\ w.tblFiles[x[1]][x[2] + 1] = GetData(w.pageCache[x[1]][x[2]])

\* the Flush with outcome o, if it succeeded, left the cache on disk
FlushedClean(o) == o.err = "none" => CacheOnDisk(o.w)

\* C21: right after a successful Flush no cached page of any table is
\* dirty, and the bytes of the heap file at page i of a table equal the
\* image of its cached page i.
C21_FlushedCacheOnDisk ==
    \A plan \in Plans(W) : FlushedClean(LayerFlushIO(W, plan))

\* the last call was a Flush that succeeded and wrote two pages, and
\* nothing was changed since
C21_Witness ==
    /\ lastIO.op = "Flush" /\ lastIO.err = "none"
    /\ lastIO.done = 1 + Cardinality(DOMAIN indexes) + 2
    /\ Cardinality(CachedPages(W)) >= 2
    /\ CacheOnDisk(W)

\* the same for the Flush of Spec, after updates, deletes and restarts
\* (holds in Spec)
C21_FlushOfSpec == FlushedClean(LayerFlush(W))

\* --------------------------------------------------------------- C22
\* the length in pages of the heap file of t, 0 when there is none
FilePages(w, t) == IF t \in DOMAIN w.tblFiles THEN Len(w.tblFiles[t]) ELSE 0

\* AllocatePage(t) with outcome a, called in state w: it returns the counter
\* (0 for a table without counter and file), adds 1 to it and leaves the
\* length of the file as it was
AllocatedNext(a, w, t) ==
    /\ a.pageID = GetPageCount(getFile(w, t), t)
    /\ (t \notin DOMAIN w.pageCounter /\ FilePages(w, t) = 0) => a.pageID = 0
    /\ t \in DOMAIN w.pageCounter => a.pageID = w.pageCounter[t]
    /\ GetPageCount(a.st, t) = a.pageID + 1
    /\ FilePages(a.st, t) = FilePages(w, t)

AllocateCounts == \A t \in Tables : AllocatedNext(AllocatePage(W, t), W, t)

\* no step to a state with the layer open makes GetPageCount smaller
CountKept ==
    isOpen' => \A t \in Tables : GetPageCount(W, t)' >= GetPageCount(W, t)

\* C22 (page-ID counter): the first AllocatePage of a new table returns 0,
\* every AllocatePage returns the counter and adds exactly 1 to it without
\* extending the file, and what GetPageCount reports for a table never
\* decreases, also across Close and Open on the same base path.
C22_PageCounter == []AllocateCounts /\ [][CountKept]_vars

\* the allocation part alone (holds)
C22_AllocateCounts == AllocateCounts

\* GetPageCount does not decrease while the disk manager stays the same:
\* in every step other than Open (holds)
C22_CountKeptUntilOpen ==
    [][(isOpen' /\ isOpen) => \A t \in Tables : GetPageCount(W, t)' >= GetPageCount(W, t)]_vars


\* ------------------------------------------------------ locking (SpecLock)
\* A call is the sequence of the steps it makes on the mutexes and on the
\* shared state of the components: << "Announce", c >> and << "Lock", c >>
\* are the two halves of c.mutex.Lock(), << "Unlock", c >>, << "RLock", c >>
\* and << "RUnlock", c >> the other sync.RWMutex methods, << "Read", c >> and
\* << "Write", c >> an access to the fields of component c.  The pages of
\* the cache carry no mutex of their own and belong to the layer.  What a
\* call finds (an open layer, a cached page, an open file, a dirty page) is
\* a parameter of its steps.
MaxCalls == 3

Rd(c) == << << "Read", c >> >>
Wr(c) == << << "Write", c >> >>

\* mutex.Lock(); defer mutex.Unlock()
Locked(c, body) ==
    << << "Announce", c >>, << "Lock", c >> >> \o body \o << << "Unlock", c >> >>

\* mutex.RLock(); defer mutex.RUnlock()
RLocked(c, body) == << << "RLock", c >> >> \o body \o << << "RUnlock", c >> >>

\* CatalogManager
CatalogLoadSteps == Locked("catalog", Wr("catalog"))
CatalogSaveSteps == Rd("catalog")
CatalogCreateTableSteps(exists) ==
    Locked("catalog", IF exists THEN Rd("catalog")
                      ELSE Wr("catalog") \o CatalogSaveSteps)
TableExistsSteps == RLocked("catalog", Rd("catalog"))
ListTablesSteps == RLocked("catalog", Rd("catalog"))

\* SimpleIndex
IndexLoadSteps == Locked("index", Wr("index"))
IndexSaveSteps == RLocked("index", Rd("index"))
IndexInsertSteps == Locked("index", Wr("index"))
SearchSteps == RLocked("index", Rd("index"))
IndexDeleteSteps == Locked("index", Wr("index"))
GetAllRecordsSteps == RLocked("index", Rd("index"))

\* DiskManager: getFile stores the handle and the page counter of a file
\* that is not open yet
getFileSteps(fileOpen) == IF fileOpen THEN Rd("disk") ELSE Wr("disk")
DiskOpenSteps == Locked("disk", << >>)
DiskCloseSteps == Locked("disk", Wr("disk"))
ReadPageSteps(fileOpen) == RLocked("disk", getFileSteps(fileOpen))
WritePageSteps == Locked("disk", Wr("disk"))
AllocatePageSteps == Locked("disk", Wr("disk"))
GetPageCountSteps == RLocked("disk", Rd("disk"))

\* FileStorageLayer.getPage: a hit reads the cache, a miss reads the page
\* from the disk manager and stores it in the cache
getPageSteps(hit, fileOpen) ==
    IF hit THEN Rd("layer")
    ELSE Rd("layer") \o ReadPageSteps(fileOpen) \o Wr("layer")

\* a Flush that takes the layer's mutex as the other public methods do
FlushStepsLocking(opened, dirty) ==
    Locked("layer",
           IF ~opened THEN Rd("layer")
           ELSE Rd("layer") \o CatalogSaveSteps \o IndexSaveSteps
                \o Rd("layer") \o WritePageSteps \o Wr("layer"))

\* FileStorageLayer.Flush takes no mutex of the layer; SetClean writes the
\* dirty flag of a cached page
FlushSteps(opened, dirty) ==
    IF ~opened THEN Rd("layer")
    ELSE Rd("layer") \o CatalogSaveSteps \o IndexSaveSteps
         \o IF dirty THEN Rd("layer") \o WritePageSteps \o Wr("layer")
            ELSE Rd("layer")

OpenSteps(opened, hasTable) ==
    Locked("layer",
           IF opened THEN Rd("layer")
           ELSE Wr("layer") \o DiskOpenSteps \o CatalogLoadSteps
                \o ListTablesSteps
                \o (IF hasTable THEN IndexLoadSteps \o Wr("layer") ELSE << >>)
                \o Wr("layer"))

CloseSteps(opened, dirty) ==
    Locked("layer",
           IF ~opened THEN Rd("layer")
           ELSE FlushSteps(TRUE, dirty) \o DiskCloseSteps \o Wr("layer"))

CreateTableSteps(exists) ==
    Locked("layer",
           Rd("layer") \o CatalogCreateTableSteps(exists)
           \o IF exists THEN << >> ELSE Wr("layer"))

\* insertRecord either fills a page it finds or allocates a new one
insertRecordSteps(fits, hit, fileOpen) ==
    GetPageCountSteps
    \o IF fits THEN getPageSteps(hit, fileOpen) \o Wr("layer")
       ELSE AllocatePageSteps \o Wr("layer")

InsertSteps(exists, fits, hit, fileOpen) ==
    Locked("layer",
           Rd("layer") \o TableExistsSteps
           \o IF exists
              THEN insertRecordSteps(fits, hit, fileOpen) \o IndexInsertSteps
              ELSE << >>)

GetSteps(found, hit, fileOpen) ==
    RLocked("layer",
            Rd("layer") \o SearchSteps
            \o IF found THEN getPageSteps(hit, fileOpen) \o Rd("layer")
               ELSE << >>)

UpdateSteps(found, hit, fileOpen) ==
    Locked("layer",
           Rd("layer") \o SearchSteps
           \o IF found THEN getPageSteps(hit, fileOpen) \o Wr("layer")
              ELSE << >>)

DeleteRecordSteps(found, hit, fileOpen) ==
    Locked("layer",
           Rd("layer") \o SearchSteps
           \o IF found
              THEN getPageSteps(hit, fileOpen) \o Wr("layer") \o IndexDeleteSteps
              ELSE << >>)

ScanSteps(exists, hit, fileOpen) ==
    RLocked("layer",
            Rd("layer") \o TableExistsSteps
            \o IF exists
               THEN GetAllRecordsSteps \o getPageSteps(hit, fileOpen)
                    \o Rd("layer")
               ELSE << >>)

\* the public calls a goroutine can make, each with the steps of one of
\* its paths
Call(name, prog) == [call |-> name, prog |-> prog, pc |-> 1]

Calls ==
    {Call("Open", OpenSteps(o, h)) : o \in BOOLEAN, h \in BOOLEAN}
    \cup {Call("Close", CloseSteps(o, d)) : o \in BOOLEAN, d \in BOOLEAN}
    \cup {Call("Flush", FlushSteps(o, d)) : o \in BOOLEAN, d \in BOOLEAN}
    \cup {Call("CreateTable", CreateTableSteps(e)) : e \in BOOLEAN}
    \cup {Call("Insert", InsertSteps(e, f, h, o)) :
            e \in BOOLEAN, f \in BOOLEAN, h \in BOOLEAN, o \in BOOLEAN}
    \cup {Call("Get", GetSteps(f, h, o)) :
            f \in BOOLEAN, h \in BOOLEAN, o \in BOOLEAN}
    \cup {Call("Update", UpdateSteps(f, h, o)) :
            f \in BOOLEAN, h \in BOOLEAN, o \in BOOLEAN}
    \cup {Call("DeleteRecord", DeleteRecordSteps(f, h, o)) :
            f \in BOOLEAN, h \in BOOLEAN, o \in BOOLEAN}
    \cup {Call("Scan", ScanSteps(e, h, o)) :
            e \in BOOLEAN, h \in BOOLEAN, o \in BOOLEAN}

InCall(g) == conc.th[g].call # "none"

\* the step goroutine g makes next
NextStep(g) == conc.th[g].prog[conc.th[g].pc]
AtStep(g, op) == InCall(g) /\ NextStep(g)[1] = op

\* g has made its step: it moves on, and returns after the last one
Advance(th, g) ==
    IF th[g].pc = Len(th[g].prog) THEN [th EXCEPT ![g] = IdleThread]
    ELSE [th EXCEPT ![g].pc = @ + 1]

Stepped(g, mu) ==
    /\ conc' = [conc EXCEPT !.th = Advance(conc.th, g), !.mu = mu]
    /\ UNCHANGED << layerVars, pageVars, codec, written, lastIO >>

\* a goroutine calls the layer
StartCall(g, c) ==
    /\ ~InCall(g)
    /\ conc.started < MaxCalls
    /\ conc' = [conc EXCEPT !.th[g] = c, !.started = @ + 1]
    /\ UNCHANGED << layerVars, pageVars, codec, written, lastIO >>

Start == \E g \in Threads, c \in Calls : StartCall(g, c)

\* RWMutex.Lock, first half: the writer takes the writer mutex and
\* announces itself, which turns away the readers that come after it
Announce(g) ==
    /\ AtStep(g, "Announce")
    /\ conc.mu[NextStep(g)[2]].w = "none"
    /\ Stepped(g, [conc.mu EXCEPT ![NextStep(g)[2]].w = g])

\* RWMutex.Lock, second half: the writer waits for the readers to leave
Lock(g) ==
    /\ AtStep(g, "Lock")
    /\ conc.mu[NextStep(g)[2]].w = g
    /\ \A h \in Threads : conc.mu[NextStep(g)[2]].readers[h] = 0
    /\ Stepped(g, [conc.mu EXCEPT ![NextStep(g)[2]].active = TRUE])

Unlock(g) ==
    /\ AtStep(g, "Unlock")
    /\ Stepped(g, [conc.mu EXCEPT ![NextStep(g)[2]].w = "none",
                                  ![NextStep(g)[2]].active = FALSE])

\* RWMutex.RLock waits while a writer holds the mutex or has announced
\* itself
RLock(g) ==
    /\ AtStep(g, "RLock")
    /\ conc.mu[NextStep(g)[2]].w = "none"
    /\ Stepped(g, [conc.mu EXCEPT ![NextStep(g)[2]].readers[g] = @ + 1])

RUnlock(g) ==
    /\ AtStep(g, "RUnlock")
    /\ Stepped(g, [conc.mu EXCEPT ![NextStep(g)[2]].readers[g] = @ - 1])

Read(g) == AtStep(g, "Read") /\ Stepped(g, conc.mu)
Write(g) == AtStep(g, "Write") /\ Stepped(g, conc.mu)

\* the steps of a goroutine inside a call
ThreadStep(g) ==
    \/ Announce(g)
    \/ Lock(g)
    \/ Unlock(g)
    \/ RLock(g)
    \/ RUnlock(g)
    \/ Read(g)
    \/ Write(g)

Announces == \E g \in Threads : Announce(g)
Locks == \E g \in Threads : Lock(g)
Unlocks == \E g \in Threads : Unlock(g)
RLocks == \E g \in Threads : RLock(g)
RUnlocks == \E g \in Threads : RUnlock(g)
Reads == \E g \in Threads : Read(g)
Writes == \E g \in Threads : Write(g)

NextLock ==
    \/ Start
    \/ Announces
    \/ Locks
    \/ Unlocks
    \/ RLocks
    \/ RUnlocks
    \/ Reads
    \/ Writes

SpecLock == Init /\ [][NextLock]_vars

\* the Go scheduler runs every goroutine that can make a step
SpecLockFair == SpecLock /\ \A g \in Threads : WF_vars(ThreadStep(g))

\* g holds the mutex of c: exclusively, or at all
HoldsExclusive(g, c) == conc.mu[c].w = g /\ conc.mu[c].active
Holds(g, c) == conc.mu[c].w = g \/ conc.mu[c].readers[g] > 0

\* every write to a component's state is made under its exclusive lock
WritesLocked ==
    \A g \in Threads :
      AtStep(g, "Write") => HoldsExclusive(g, NextStep(g)[2])

Accesses(g, c) ==
    InCall(g) /\ NextStep(g)[1] \in {"Read", "Write"} /\ NextStep(g)[2] = c

\* no write to a component's state is concurrent with another access to it
NoRace ==
    \A g \in Threads, h \in Threads, c \in Components :
      (g # h /\ Accesses(g, c) /\ Accesses(h, c))
        => (NextStep(g)[1] = "Read" /\ NextStep(h)[1] = "Read")

\* C23: in every interleaving of concurrent public calls, the shared state
\* of each component (layer, disk manager, catalog, index) is written only
\* while the component's exclusive lock is held, so that no write is
\* concurrent with another read or write of it.
C23_LockingDiscipline == WritesLocked /\ NoRace


\* the part of C23 that the catalog and the index keep: their state is
\* written only under their own exclusive lock
C23_CatalogIndexWritesLocked ==
    \A g \in Threads :
      (AtStep(g, "Write") /\ NextStep(g)[2] \in {"catalog", "index"})
        => HoldsExclusive(g, NextStep(g)[2])

\* the order of the locks: the layer's mutex, then the catalog's or one
\* index's, then the disk manager's
LockRank(c) ==
    CASE c = "layer" -> 1
      [] c = "catalog" -> 2
      [] c = "index" -> 2
      [] c = "disk" -> 3

\* g is about to call Lock or RLock on the mutex of c
Requests(g, c) ==
    InCall(g) /\ NextStep(g)[1] \in {"Announce", "RLock"} /\ NextStep(g)[2] = c

\* a goroutine asks for a mutex only when every mutex it holds comes
\* earlier in the order; so it never asks for one it holds, nor for the
\* catalog's while it holds an index's
LockOrder ==
    \A g \in Threads, c \in Components, d \in Components :
      (Requests(g, c) /\ Holds(g, d)) => LockRank(d) < LockRank(c)

\* every call that has started returns
Returns == \A g \in Threads : InCall(g) ~> ~InCall(g)

\* C24: in every interleaving of concurrent calls the locks are acquired
\* in the order layer, then catalog or one index, then disk manager, no
\* goroutine acquires a lock of a component whose lock it holds, and hence
\* every call that starts eventually returns.
C24_DeadlockFree == []LockOrder /\ Returns

\* a Close holds the layer's mutex and, inside its Flush, the disk
\* manager's, while the other goroutine waits for the layer's mutex
C24_Witness ==
    \E g \in Threads, h \in Threads :
      /\ g # h
      /\ conc.th[g].call = "Close"
      /\ HoldsExclusive(g, "layer") /\ HoldsExclusive(g, "disk")
      /\ Requests(h, "layer")


\* ------------------------------------------------ unknown table (C25)
\* the tables the open layer's catalog does not hold
UnknownTables(w) == IF w.isOpen THEN Tables \ DOMAIN w.catalog ELSE {}

\* the call returned an error value and changed nothing
Rejected(o, w) == o.err \notin {"none", "Panic"} /\ o.w = w

\* C25: on an open layer Insert, Get, Update, DeleteRecord and Scan with a
\* table name that is not in the catalog each return an error value, without
\* crashing on the missing index, and leave the catalog, the indexes, the
\* page caches and the page counters unchanged.
C25_UnknownTable ==
    \A t \in UnknownTables(W) :
      /\ \A r \in Records : Rejected(LayerInsert(W, t, r), W)
      /\ \A f \in Filters : Rejected(LayerScan(W, t, f), W)
      /\ \A id \in IDs :
           /\ Rejected(LayerGet(W, t, id), W)
           /\ \A r \in Records : Rejected(LayerUpdate(W, t, id, r), W)
           /\ Rejected(LayerDeleteRecord(W, t, id), W)

\* the part of C25 that holds: Insert and Scan ask the catalog first
C25_InsertScanReject ==
    \A t \in UnknownTables(W) :
      /\ \A r \in Records : Rejected(LayerInsert(W, t, r), W)
      /\ \A f \in Filters : Rejected(LayerScan(W, t, f), W)

\* Get, Update and DeleteRecord with an unknown table end in a panic
C25_GetUpdateDeletePanic ==
    \A t \in UnknownTables(W), id \in IDs :
      /\ LayerGet(W, t, id).err = "Panic"
      /\ \A r \in Records : LayerUpdate(W, t, id, r).err = "Panic"
      /\ LayerDeleteRecord(W, t, id).err = "Panic"


\* -------------------------------------------- index and heap (C26)
\* the index entries of table t: logical ID -> RecordID
IndexOf(w, t) == w.indexes[t].index

\* the slot of the page that getPage g delivers holds a record
SlotLive(g, slotID) ==
    /\ g.err = "none"
    /\ slotID < g.page.hdr.SlotCount
    /\ readSlot(g.page, slotID).Size # 0

\* the page of every index entry is below the table's page count
PageBelowCount(w) ==
    \A t \in OpenTablesOf(w) : \A id \in DOMAIN IndexOf(w, t) :
      IndexOf(w, t)[id].PageID < GetPageCount(w, t)

\* the slot of every index entry is non-empty
SlotNonEmpty(w) ==
    \A t \in OpenTablesOf(w) : \A id \in DOMAIN IndexOf(w, t) :
      SlotLive(getPage(w, t, IndexOf(w, t)[id].PageID),
               IndexOf(w, t)[id].SlotID)

\* no two IDs of a table map to the same (page, slot)
NoSharedSlot(w) ==
    \A t \in OpenTablesOf(w) :
      \A id \in DOMAIN IndexOf(w, t), id2 \in DOMAIN IndexOf(w, t) :
        id # id2 => IndexOf(w, t)[id] # IndexOf(w, t)[id2]

\* C26: in every reachable state of an open table, each logical ID in the
\* index maps to a (page, slot) whose page ID is below the table's page
\* count and whose slot is non-empty, and no two distinct live IDs map to
\* the same (page, slot); also for zero-length records.
C26_IndexHeapConsistent ==
    PageBelowCount(W) /\ SlotNonEmpty(W) /\ NoSharedSlot(W)

C26_PageBelowCount == PageBelowCount(W)
C26_SlotNonEmpty == SlotNonEmpty(W)
C26_NoSharedSlot == NoSharedSlot(W)


\* ------------------------------------------------ cache coherence (C27)
\* page x = << table, pageID >> of the cache is in the heap file, byte for byte
OnDisk(w, x) ==
    /\ x[1] \in DOMAIN w.tblFiles
    /\ Len(w.tblFiles[x[1]]) >= x[2] + 1
    /\ w.tblFiles[x[1]][x[2] + 1] = GetData(w.pageCache[x[1]][x[2]])

\* every cached page whose dirty flag is clear equals its page of the file
CleanOnDisk(w) ==
    \A x \in CachedPages(w) : ~IsDirty(w.pageCache[x[1]][x[2]]) => OnDisk(w, x)

\* every cached page of w whose bytes differ in w2 is dirty in w2
ChangedDirty(w, w2) ==
    \A x \in CachedPages(w) \cap CachedPages(w2) :
      GetData(w2.pageCache[x[1]][x[2]]) # GetData(w.pageCache[x[1]][x[2]])
        => IsDirty(w2.pageCache[x[1]][x[2]])

\* C27: every cached page whose dirty flag is clear has an image equal to
\* the heap file's bytes for that page; equivalently, every operation that
\* changes a byte of a cached page (Insert, Update, DeleteRecord) leaves
\* the page dirty.
C27_CacheCoherent ==
    /\ CleanOnDisk(W)
    /\ \A t \in Tables :
         /\ \A r \in Records : ChangedDirty(W, LayerInsert(W, t, r).w)
         /\ \A id \in IDs :
              /\ \A r \in Records : ChangedDirty(W, LayerUpdate(W, t, id, r).w)
              /\ ChangedDirty(W, LayerDeleteRecord(W, t, id).w)

\* a clean cached page that holds records, beside a cached page that was
\* changed since it was last written: dirty, and different from the file
C27_Witness ==
    /\ isOpen
    /\ \E x \in CachedPages(W) :
         /\ ~IsDirty(pageCache[x[1]][x[2]])
         /\ pageCache[x[1]][x[2]].hdr.SlotCount > 0
         /\ OnDisk(W, x)
    /\ \E x \in CachedPages(W) :
         /\ IsDirty(pageCache[x[1]][x[2]])
         /\ x[1] \in DOMAIN tblFiles
         /\ Len(tblFiles[x[1]]) >= x[2] + 1
         /\ ~OnDisk(W, x)


\* ------------------------------------------------ record isolation (C28)
\* Get gives the same for every ID but id of table t, and for every ID of
\* the other tables, in w2 as in w
SameButFor(w, w2, t, id) ==
    \A t2 \in OpenTablesOf(w), id2 \in IDs :
      (t2 # t \/ id2 # id) => GetResult(w2, t2, id2) = GetResult(w, t2, id2)

\* a call that returned o, aimed at ID id of table t, kept the rest
Isolated(o, w, t, id) == o.err = "none" => SameButFor(w, o.w, t, id)

InsertIsolated(o, w, t) == Isolated(o, w, t, o.id)

IsolatedIn(w, records) ==
    \A t \in OpenTablesOf(w) :
      /\ \A r \in records : InsertIsolated(LayerInsert(w, t, r), w, t)
      /\ \A id \in IDs :
           /\ \A r \in records : Isolated(LayerUpdate(w, t, id, r), w, t, id)
           /\ Isolated(LayerDeleteRecord(w, t, id), w, t, id)

\* C28: a successful Insert, Update(id) or DeleteRecord(id) changes the
\* outcome of Get only for the targeted ID; for every other ID of the same
\* table and for every ID of the other tables Get returns the same bytes or
\* the same error as before.
C28_RecordIsolation == IsolatedIn(W, Records)

=============================================================================
